---- MODULE Spec2Model ----
(***************************************************************************)
(* Course / instructor back end (tadrib-backend).                          *)
(*                                                                         *)
(* The state is the content of the document store (users, instructors,     *)
(* courses, invite tokens, subscriptions), whether the payment client is   *)
(* configured, the requests in flight, the server's time-zone offset, and  *)
(* the last request with its response.  Each action is one request         *)
(* handler, run to completion, except where requests are interleaved: then *)
(* an action is one step of a handler between two awaits.                  *)
(*                                                                         *)
(* Two generations of the course routes are in the repository:             *)
(*   - src/controllers/courses.js               (detail read in-line)      *)
(*   - src/controllers/billing.js, lines 284-807 (canViewCourse middleware *)
(*     and the attendance end points)                                      *)
(* and two generations of the instructor routes:                           *)
(*   - src/controllers/instructors.js                                      *)
(*   - src/unnamed/part_006, lines 244-546                                 *)
(* Handlers that differ between the generations are modelled once each.    *)
(***************************************************************************)
EXTENDS Integers, Sequences, FiniteSets, TLC

VARIABLES users, instructors, courses, invites, subscriptions, stripe, inflight,
          tz, req, res

vars == <<users, instructors, courses, invites, subscriptions, stripe, inflight,
          tz, req, res>>

(***************************************************************************)
(* Bounds and universes                                                    *)
(***************************************************************************)
\* last calendar day of the modelled range (days are numbered 0..MaxDay,
\* day 0 a Sunday, each standing for the date-only string of that day)
MaxDay == 3
\* longest attendance list a request submits
MaxKeys == 2

UserIds   == {"u1", "u2", "u3"}
InstIds   == {"i1", "i2"}
CourseIds == {"c1", "c2"}
Days      == 0..MaxDay

\* the empty / missing identity (falsy in the code)
NoId == ""

(***************************************************************************)
(* String conversions                                                      *)
(***************************************************************************)
\* String.prototype.toLowerCase on the strings the model uses
toLowerCase(s) ==
  CASE s = "Admin" -> "admin"
    [] s = "STAFF" -> "staff"
    [] s = "M3"    -> "m3"
    [] OTHER       -> s

\* String(x) of a populated lean document: a plain object, never an id
ObjectObject == "[object Object]"

(***************************************************************************)
(* verifyToken: the request identity {_id, roles} (roles lower-cased)      *)
(***************************************************************************)
verifyToken(tok) ==
  [_id |-> tok.id, roles |-> {toLowerCase(r) : r \in tok.roles}]

(***************************************************************************)
(* Instructor resolution                                                   *)
(***************************************************************************)
\* Instructor.findOne({user: userId}): the unique index on user makes the
\* match unique
LinkedInstructors(userId) ==
  {i \in DOMAIN instructors : instructors[i].user = userId}

\* Instructor.findOne({email: e}): emails are unique per owner only, so the
\* query may match several records and returns any one of them
InstructorsByEmail(e) ==
  {i \in DOMAIN instructors : instructors[i].email = e}

\* courses.js findInstructorForUser: direct link, else username as email.
\* The set of instructor ids the call may return (NoId for null).
findInstructorForUser(userId) ==
  IF LinkedInstructors(userId) # {} THEN LinkedInstructors(userId)
  ELSE LET uname == IF userId \in DOMAIN users
                    THEN toLowerCase(users[userId].username) ELSE NoId
       IN  IF uname = NoId THEN {NoId}
           ELSE IF InstructorsByEmail(uname) = {} THEN {NoId}
           ELSE InstructorsByEmail(uname)

\* billing.js resolveInstructorIdForUser.  The file declares the function
\* twice (301-313 by username, 421-430 by User.email); the later declaration
\* is the one in effect for every caller in the file.
resolveInstructorIdForUser(userId) ==
  IF LinkedInstructors(userId) # {} THEN LinkedInstructors(userId)
  ELSE LET email == IF userId \in DOMAIN users THEN users[userId].email ELSE NoId
       IN  IF email = NoId THEN {NoId}
           ELSE IF InstructorsByEmail(toLowerCase(email)) = {} THEN {NoId}
           ELSE InstructorsByEmail(toLowerCase(email))

courseIncludesInstructor(course, instructorId) ==
  instructorId # NoId /\ instructorId \in course.instructors

\* the ownership test left out, as in the first generation of the routes
isOwner_unchecked(ownerStr, userId) == TRUE

\* isOwner(course, userId): course.owner && String(course.owner) === String(userId);
\* ownerStr is String(course.owner), NoId when course.owner is missing or null
isOwner(ownerStr, userId) ==
  ownerStr # NoId /\ ownerStr = userId

\* String(course.owner) after .populate('owner', ...).lean(): the owner is
\* replaced by the user's plain object, or by null when no such user exists
PopulatedOwnerString(course) ==
  IF course.owner \in DOMAIN users THEN ObjectObject ELSE NoId

AdminRoles == {"owner", "admin", "manager", "staff"}

\* canViewCourse: roles.some(r => [...].includes(String(r).toLowerCase()))
isAdmin(user) == \E r \in user.roles : toLowerCase(r) \in AdminRoles

(***************************************************************************)
(* Course documents                                                        *)
(***************************************************************************)
EmptyMap == [k \in {} |-> 0]

Has(b, f) == f \in DOMAIN b

\* the fields a Course document stores; a field of a request body that is
\* not among them is dropped by the schema
CourseFields ==
  {"owner", "start_date", "end_date", "range_start_time", "range_end_time",
   "daysOfWeek", "courseDatesTimes", "instructors", "instructorRates",
   "enrolled", "attendance"}

\* the schema defaults of the optional fields
CourseDefaults ==
  [owner |-> NoId, range_start_time |-> "16:00", range_end_time |-> "18:00",
   daysOfWeek |-> {}, courseDatesTimes |-> <<>>, instructors |-> {},
   instructorRates |-> EmptyMap, enrolled |-> {}, attendance |-> EmptyMap]

\* {...a, ...b}
Spread(a, b) ==
  [f \in DOMAIN a \cup DOMAIN b |-> IF f \in DOMAIN b THEN b[f] ELSE a[f]]

\* $set of the stored fields of a payload
SetFields(doc, p) ==
  [f \in DOMAIN doc |-> IF f \in DOMAIN p THEN p[f] ELSE doc[f]]

\* sanitizePayload: instructorRates is always present afterwards ({} when
\* the body has none)
sanitizePayload(body) ==
  IF Has(body, "instructorRates") THEN body
  ELSE Spread(body, [instructorRates |-> EmptyMap])

(***************************************************************************)
(* Session generation                                                      *)
(***************************************************************************)
\* Date.getDay() of the instant "UTC midnight of day d": the weekday of the
\* local calendar day, which is the day before in a zone west of UTC
getDay(d) == (d + tz + 7) % 7

\* ymd(date): the local calendar day of the instant, formatted
ymd(d) == [kind |-> "date", n |-> d + tz]

\* the time value of a Date that failed to parse (Number.isNaN(x.getTime())),
\* a value outside the modelled days
NaN == -1

isNaN(x) == x = NaN

RECURSIVE SessionLoop(_, _, _, _, _)
SessionLoop(d, end, daysOfWeek, st, et) ==
  IF d > end THEN <<>>
  ELSE (IF getDay(d) \in daysOfWeek
        THEN <<[date |-> d, start_time |-> st, end_time |-> et]>>
        ELSE <<>>)
       \o SessionLoop(d + 1, end, daysOfWeek, st, et)

\* the test that a date parsed left out
buildSessions_unparsed(b) ==
  IF ~Has(b, "start_date") \/ ~Has(b, "end_date") \/ ~Has(b, "daysOfWeek")
  THEN <<>>
  ELSE IF b.daysOfWeek = {} \/ b.start_date > b.end_date THEN <<>>
  ELSE SessionLoop(b.start_date, b.end_date, b.daysOfWeek,
                   IF Has(b, "range_start_time") THEN b.range_start_time ELSE "16:00",
                   IF Has(b, "range_end_time") THEN b.range_end_time ELSE "18:00")

\* buildSessions(b): b is a payload or a document, fields may be missing
buildSessions(b) ==
  IF ~Has(b, "start_date") \/ ~Has(b, "end_date") \/ ~Has(b, "daysOfWeek")
  THEN <<>>
  ELSE IF b.daysOfWeek = {} THEN <<>>
  ELSE IF isNaN(b.start_date) \/ isNaN(b.end_date) \/ b.start_date > b.end_date
  THEN <<>>
  ELSE SessionLoop(b.start_date, b.end_date, b.daysOfWeek,
                   IF Has(b, "range_start_time") THEN b.range_start_time ELSE "16:00",
                   IF Has(b, "range_end_time") THEN b.range_end_time ELSE "18:00")

(***************************************************************************)
(* Validation                                                              *)
(***************************************************************************)
\* CourseSchema.path('end_date').validate:
\*   return !this.start_date || value >= this.start_date
\* self is the value of `this` in the validator
EndDateValidator(self, value) ==
  ~Has(self, "start_date") \/ value >= self.start_date

\* daysOfWeek validator: every value an integer in 0..6
DaysOfWeekValidator(arr) == \A n \in arr : n \in 0..6

\* `this` of a validator run by findByIdAndUpdate(..., {runValidators: true}):
\* the query, which has no start_date property
QueryThis == [op |-> "findOneAndUpdate"]

\* Document validation (Course.create, course.save()): required dates,
\* then the validators with `this` the document
DocumentValid(doc) ==
  /\ Has(doc, "start_date") /\ Has(doc, "end_date")
  /\ EndDateValidator(doc, doc.end_date)
  /\ DaysOfWeekValidator(doc.daysOfWeek)

\* Update validation: only the paths of the update are validated
UpdateValid(payload) ==
  /\ Has(payload, "end_date") => EndDateValidator(QueryThis, payload.end_date)
  /\ Has(payload, "daysOfWeek") => DaysOfWeekValidator(payload.daysOfWeek)

(***************************************************************************)
(* Requests and responses                                                  *)
(***************************************************************************)
\* the last request (operation, normalized caller, target id, the instructor
\* the caller was resolved to, the body) and its response (status, the ids
\* of the courses whose data the response carries)
Respond(op, user, id, inst, body, status, data) ==
  /\ req' = [op |-> op, user |-> user, id |-> id, inst |-> inst, body |-> body]
  /\ res' = [status |-> status, data |-> data]

NoBody == [kind |-> "none"]

Without(f, k) == [x \in DOMAIN f \ {k} |-> f[x]]

NoSessionsGiven(payload) ==
  ~Has(payload, "courseDatesTimes") \/ payload.courseDatesTimes = <<>>

RangeGiven(payload) ==
  /\ Has(payload, "start_date") /\ Has(payload, "end_date")
  /\ Has(payload, "daysOfWeek") /\ payload.daysOfWeek # {}

(***************************************************************************)
(* Course routes                                                           *)
(***************************************************************************)
\* POST /courses
CreateCourse(tok, id, body) ==
  LET user     == verifyToken(tok)
      payload  == Spread(sanitizePayload(body), [owner |-> user._id])
      payload2 == IF NoSessionsGiven(payload) /\ RangeGiven(payload)
                  THEN Spread(payload, [courseDatesTimes |-> buildSessions(payload)])
                  ELSE payload
      full     == Spread(CourseDefaults, payload2)
      doc      == [f \in DOMAIN full \cap CourseFields |-> full[f]]
  IN  /\ id \notin DOMAIN courses
      /\ IF DocumentValid(doc)
         THEN /\ courses' = (id :> doc) @@ courses
              /\ Respond("create", user, id, NoId, body, 201, {id})
         ELSE /\ UNCHANGED courses
              /\ Respond("create", user, id, NoId, body, 400, {})
      /\ UNCHANGED <<users, instructors, tz, subscriptions, stripe, inflight, invites>>

\* GET /courses/:id  (courses.js: owner or assigned instructor of the tenant)
GetCourse(tok, id) ==
  LET user == verifyToken(tok) IN
  /\ IF id \notin DOMAIN courses
     THEN Respond("get", user, id, NoId, NoBody, 404, {})
     ELSE LET course   == courses[id]
              ownerStr == PopulatedOwnerString(course)
          IN  IF isOwner(ownerStr, user._id)
              THEN Respond("get", user, id, NoId, NoBody, 200, {id})
              ELSE \E meInst \in findInstructorForUser(user._id) :
                     IF meInst = NoId
                     THEN Respond("get", user, id, meInst, NoBody, 403, {})
                     ELSE IF ownerStr # instructors[meInst].owner
                     THEN Respond("get", user, id, meInst, NoBody, 403, {})
                     ELSE IF ~courseIncludesInstructor(course, meInst)
                     THEN Respond("get", user, id, meInst, NoBody, 403, {})
                     ELSE Respond("get", user, id, meInst, NoBody, 200, {id})
  /\ UNCHANGED <<users, instructors, courses, tz, subscriptions, stripe, inflight, invites>>

\* the role test left out
canViewCourse_noroles(user, id, myInstructorId) ==
  IF user._id = NoId THEN 401
  ELSE IF id \notin DOMAIN courses THEN 404
  ELSE IF courses[id].owner = user._id THEN 200
  ELSE IF myInstructorId # NoId /\ myInstructorId \in courses[id].instructors THEN 200
  ELSE IF user._id \in courses[id].enrolled THEN 200
  ELSE 403

\* canViewCourse with the permission test ahead of the existence test
canViewCourse_permissionFirst(user, id, myInstructorId) ==
  IF user._id = NoId THEN 401
  ELSE IF isAdmin(user) THEN (IF id \in DOMAIN courses THEN 200 ELSE 404)
  ELSE IF id \notin DOMAIN courses THEN 403
  ELSE IF courses[id].owner = user._id THEN 200
  ELSE IF myInstructorId # NoId /\ myInstructorId \in courses[id].instructors THEN 200
  ELSE IF user._id \in courses[id].enrolled THEN 200
  ELSE 403

\* billing.js canViewCourse: the status it answers, 200 standing for next()
canViewCourse(user, id, myInstructorId) ==
  IF user._id = NoId THEN 401
  ELSE IF id \notin DOMAIN courses THEN 404
  ELSE IF isAdmin(user) THEN 200
  ELSE IF courses[id].owner = user._id THEN 200
  ELSE IF myInstructorId # NoId /\ myInstructorId \in courses[id].instructors THEN 200
  ELSE IF user._id \in courses[id].enrolled THEN 200
  ELSE 403

\* GET /courses/:id  (billing.js: canViewCourse, then the handler)
GetCourseViaCanView(tok, id) ==
  LET user == verifyToken(tok) IN
  /\ \E my \in (IF id \in DOMAIN courses /\ ~isAdmin(user) /\ courses[id].owner # user._id
                THEN resolveInstructorIdForUser(user._id) ELSE {NoId}) :
       LET st == canViewCourse(user, id, my) IN
       Respond("view", user, id, my, NoBody, st, IF st = 200 THEN {id} ELSE {})
  /\ UNCHANGED <<users, instructors, courses, tz, subscriptions, stripe, inflight, invites>>

\* GET /courses  (billing.js); instructor is NoId (no parameter), "me" or an id
ListFilter(user, instructor, instructorId) ==
  IF instructor = NoId
  THEN {c \in DOMAIN courses : courses[c].owner = user._id}
  ELSE IF instructorId = NoId THEN {}
  ELSE {c \in DOMAIN courses :
          \/ instructorId \in courses[c].instructors
          \/ instructorId \in DOMAIN courses[c].instructorRates}

ListCourses(tok, instructor) ==
  LET user == verifyToken(tok) IN
  /\ \E instructorId \in (IF instructor = "me"
                          THEN resolveInstructorIdForUser(user._id)
                          ELSE {instructor}) :
       Respond("list", user, instructor, instructorId, NoBody, 200,
               ListFilter(user, instructor, instructorId))
  /\ UNCHANGED <<users, instructors, courses, tz, subscriptions, stripe, inflight, invites>>

\* PUT /courses/:id
PutCourse(tok, id, body) ==
  LET user == verifyToken(tok) IN
  /\ IF id \notin DOMAIN courses
     THEN UNCHANGED courses /\ Respond("put", user, id, NoId, body, 404, {})
     ELSE IF ~isOwner(courses[id].owner, user._id)
     THEN UNCHANGED courses /\ Respond("put", user, id, NoId, body, 403, {})
     ELSE LET payload  == sanitizePayload(body)
              regen    == \/ (Has(payload, "_regenerateSessions")
                               /\ payload._regenerateSessions = TRUE)
                          \/ (NoSessionsGiven(payload) /\ RangeGiven(payload))
              payload2 == IF regen
                          THEN Spread(payload, [courseDatesTimes |-> buildSessions(payload)])
                          ELSE payload
          IN  IF UpdateValid(payload2)
              THEN /\ courses' = [courses EXCEPT ![id] = SetFields(@, payload2)]
                   /\ Respond("put", user, id, NoId, body, 200, {id})
              ELSE /\ UNCHANGED courses
                   /\ Respond("put", user, id, NoId, body, 400, {})
  /\ UNCHANGED <<users, instructors, tz, subscriptions, stripe, inflight, invites>>

\* touchedRange of PATCH: any of the five range fields present
TouchedRange(payload) ==
  \E f \in {"start_date", "end_date", "daysOfWeek",
            "range_start_time", "range_end_time"} : Has(payload, f)

\* PATCH /courses/:id
PatchCourse(tok, id, body) ==
  LET user == verifyToken(tok) IN
  /\ IF id \notin DOMAIN courses
     THEN UNCHANGED courses /\ Respond("patch", user, id, NoId, body, 404, {})
     ELSE IF ~isOwner(courses[id].owner, user._id)
     THEN UNCHANGED courses /\ Respond("patch", user, id, NoId, body, 403, {})
     ELSE LET payload  == sanitizePayload(body)
              regen    == \/ (Has(payload, "_regenerateSessions")
                               /\ payload._regenerateSessions = TRUE)
                          \/ TouchedRange(payload)
              payload2 == IF regen
                          THEN Spread(payload,
                                 [courseDatesTimes |->
                                    buildSessions(Spread(courses[id], payload))])
                          ELSE payload
          IN  IF UpdateValid(payload2)
              THEN /\ courses' = [courses EXCEPT ![id] = SetFields(@, payload2)]
                   /\ Respond("patch", user, id, NoId, body, 200, {id})
              ELSE /\ UNCHANGED courses
                   /\ Respond("patch", user, id, NoId, body, 400, {})
  /\ UNCHANGED <<users, instructors, tz, subscriptions, stripe, inflight, invites>>

\* DELETE /courses/:id
DeleteCourse(tok, id) ==
  LET user == verifyToken(tok) IN
  /\ IF id \notin DOMAIN courses
     THEN UNCHANGED courses /\ Respond("delete", user, id, NoId, NoBody, 404, {})
     ELSE IF ~isOwner(courses[id].owner, user._id)
     THEN UNCHANGED courses /\ Respond("delete", user, id, NoId, NoBody, 403, {})
     ELSE /\ courses' = Without(courses, id)
          /\ Respond("delete", user, id, NoId, NoBody, 204, {})
  /\ UNCHANGED <<users, instructors, tz, subscriptions, stripe, inflight, invites>>

\* POST /courses/:id/regenerate-sessions
RegenerateSessions(tok, id, body) ==
  LET user == verifyToken(tok) IN
  /\ IF id \notin DOMAIN courses
     THEN UNCHANGED courses /\ Respond("regenerate", user, id, NoId, body, 404, {})
     ELSE IF ~isOwner(courses[id].owner, user._id)
     THEN UNCHANGED courses /\ Respond("regenerate", user, id, NoId, body, 403, {})
     ELSE LET course == courses[id]
              basis  == [f \in {"start_date", "end_date", "daysOfWeek",
                                "range_start_time", "range_end_time"} |->
                           IF Has(body, f) THEN body[f] ELSE course[f]]
              doc    == [course EXCEPT !.courseDatesTimes = buildSessions(basis)]
          IN  IF DocumentValid(doc)
              THEN /\ courses' = [courses EXCEPT ![id] = doc]
                   /\ Respond("regenerate", user, id, NoId, body, 200, {id})
              ELSE /\ UNCHANGED courses
                   /\ Respond("regenerate", user, id, NoId, body, 500, {})
  /\ UNCHANGED <<users, instructors, tz, subscriptions, stripe, inflight, invites>>

(***************************************************************************)
(* Attendance                                                              *)
(***************************************************************************)
\* `idx-${i}`
idxKey(i) == [kind |-> "idx", n |-> i]

\* allowed = new Set([...byDate, ...byIdx])
AllowedKeys(course) ==
  {ymd(course.courseDatesTimes[i].date) : i \in 1..Len(course.courseDatesTimes)}
    \cup {idxKey(i - 1) : i \in 1..Len(course.courseDatesTimes)}

RECURSIVE SanitizeLoop(_, _, _)
SanitizeLoop(arr, allowed, seen) ==
  IF arr = <<>> THEN <<>>
  ELSE IF Head(arr) \notin allowed \/ Head(arr) \in seen
       THEN SanitizeLoop(Tail(arr), allowed, seen)
       ELSE <<Head(arr)>> \o SanitizeLoop(Tail(arr), allowed, seen \cup {Head(arr)})

\* the filter on the allowed keys left out
sanitizeList_unfiltered(arr, allowed) == arr

\* sanitizeList(arr): the allowed keys of arr, first occurrences, in order
sanitizeList(arr, allowed) == SanitizeLoop(arr, allowed, {})

\* Object.entries of an array body: its indices as keys
indexName(i) ==
  CASE i = 1 -> "0" [] i = 2 -> "1" [] i = 3 -> "2" [] OTHER -> "3"

\* owner branch: next[insId] = sanitizeList(arr) for every entry of the body;
\* the entries of an array body are its elements, which are no arrays
OwnerAttendance(body, allowed) ==
  IF body.kind = "object"
  THEN [i \in DOMAIN body.map |-> sanitizeList(body.map[i], allowed)]
  ELSE [k \in {indexName(i) : i \in 1..Len(body.list)} |-> <<>>]

\* instructor branch: the caller's list, from an array body or from the
\* body's entry under the caller's instructor id
MyList(body, myInstructorId, allowed) ==
  IF body.kind = "array" THEN sanitizeList(body.list, allowed)
  ELSE IF myInstructorId \in DOMAIN body.map
       THEN sanitizeList(body.map[myInstructorId], allowed)
       ELSE <<>>

\* the instructor's request replaces the mapping by its own entry alone
InstructorAttendance_replace(map, myInstructorId, myList) ==
  (myInstructorId :> myList)

\* map[String(myInstructorId)] = myList
InstructorAttendance(map, myInstructorId, myList) ==
  (myInstructorId :> myList) @@ map

\* PUT /courses/:id/attendance
PutAttendance(tok, id, body) ==
  LET user == verifyToken(tok) IN
  /\ IF id \notin DOMAIN courses
     THEN UNCHANGED courses /\ Respond("putAttendance", user, id, NoId, body, 404, {})
     ELSE
       LET course  == courses[id]
           allowed == AllowedKeys(course)
       IN  IF isOwner(course.owner, user._id)
           THEN LET doc == [course EXCEPT !.attendance = OwnerAttendance(body, allowed)]
                IN  IF DocumentValid(doc)
                    THEN /\ courses' = [courses EXCEPT ![id] = doc]
                         /\ Respond("putAttendance", user, id, NoId, body, 200, {id})
                    ELSE /\ UNCHANGED courses
                         /\ Respond("putAttendance", user, id, NoId, body, 500, {})
           ELSE \E my \in resolveInstructorIdForUser(user._id) :
                  IF ~courseIncludesInstructor(course, my)
                  THEN /\ UNCHANGED courses
                       /\ Respond("putAttendance", user, id, my, body, 403, {})
                  ELSE LET doc == [course EXCEPT !.attendance =
                                     InstructorAttendance(@, my, MyList(body, my, allowed))]
                       IN  IF DocumentValid(doc)
                           THEN /\ courses' = [courses EXCEPT ![id] = doc]
                                /\ Respond("putAttendance", user, id, my, body, 200, {id})
                           ELSE /\ UNCHANGED courses
                                /\ Respond("putAttendance", user, id, my, body, 500, {})
  /\ UNCHANGED <<users, instructors, tz, subscriptions, stripe, inflight, invites>>

\* GET /courses/:id/attendance
GetAttendance(tok, id) ==
  LET user == verifyToken(tok) IN
  /\ IF id \notin DOMAIN courses
     THEN Respond("getAttendance", user, id, NoId, NoBody, 404, {})
     ELSE IF isOwner(courses[id].owner, user._id)
     THEN Respond("getAttendance", user, id, NoId, NoBody, 200, {id})
     ELSE \E my \in resolveInstructorIdForUser(user._id) :
            IF ~courseIncludesInstructor(courses[id], my)
            THEN Respond("getAttendance", user, id, my, NoBody, 403, {})
            ELSE Respond("getAttendance", user, id, my, NoBody, 200, {id})
  /\ UNCHANGED <<users, instructors, courses, tz, subscriptions, stripe, inflight, invites>>

(***************************************************************************)
(* Instructor routes                                                       *)
(***************************************************************************)
SELF_EDITABLE_FIELDS == {"name", "bio", "phone", "photoUrl", "skills"}

\* sanitizeUpdatable: email trimmed and lower-cased
sanitizeUpdatable(body) ==
  IF Has(body, "email") THEN [body EXCEPT !.email = toLowerCase(@)] ELSE body

\* canAccess(doc, userId): owner or linked user
canAccess(doc, userId) ==
  doc.owner = userId \/ (doc.user # NoId /\ doc.user = userId)

\* the Instructor collection with the {owner, email} index only
InstructorIndexesOk_emailOnly(all) ==
  \A i, j \in DOMAIN all :
    i # j => ~(all[i].owner = all[j].owner /\ all[i].email = all[j].email)

\* the unique indexes of the Instructor collection: {user} (sparse) and
\* {owner, email}
InstructorIndexesOk(all) ==
  \A i, j \in DOMAIN all :
    i # j => /\ (all[i].user # NoId => all[i].user # all[j].user)
             /\ ~(all[i].owner = all[j].owner /\ all[i].email = all[j].email)

\* the schema's cast of an update: email is stored lower-cased
CastInstructor(updates) ==
  IF Has(updates, "email") THEN [updates EXCEPT !.email = toLowerCase(@)] ELSE updates

\* Instructor.findByIdAndUpdate(id, updates): the stored fields are set,
\* unless a unique index rejects the write
UpdateInstructor(op, user, id, body, updates) ==
  LET next == [instructors EXCEPT ![id] = SetFields(@, CastInstructor(updates))] IN
  IF InstructorIndexesOk(next)
  THEN /\ instructors' = next
       /\ Respond(op, user, id, NoId, body, 200, {})
  ELSE /\ UNCHANGED instructors
       /\ Respond(op, user, id, NoId, body, 500, {})

\* what PATCH applies for a caller with access: never owner; user only for
\* the owner; the allow-list for the linked user who is not the owner
PatchUpdates(doc, userId, body) ==
  LET isOwnerOfDoc == doc.owner = userId
      isSelf       == doc.user # NoId /\ doc.user = userId
      u0 == sanitizeUpdatable(body)
      u1 == Without(u0, "owner")
      u2 == IF ~isOwnerOfDoc THEN Without(u1, "user") ELSE u1
  IN  IF isSelf /\ ~isOwnerOfDoc
      THEN [f \in DOMAIN u2 \cap SELF_EDITABLE_FIELDS |-> u2[f]]
      ELSE u2

\* PATCH /instructors/:id  (part_006: owner or linked user)
PatchInstructor(tok, id, body) ==
  LET user == verifyToken(tok) IN
  /\ IF id \notin DOMAIN instructors
     THEN UNCHANGED instructors /\ Respond("patchInstructor", user, id, NoId, body, 404, {})
     ELSE IF ~canAccess(instructors[id], user._id)
     THEN UNCHANGED instructors /\ Respond("patchInstructor", user, id, NoId, body, 403, {})
     ELSE UpdateInstructor("patchInstructor", user, id, body,
                           PatchUpdates(instructors[id], user._id, body))
  /\ UNCHANGED <<users, courses, tz, subscriptions, stripe, inflight, invites>>

\* PATCH /instructors/:id  (controllers/instructors.js: the body as it is)
PatchInstructorUnchecked(tok, id, body) ==
  LET user == verifyToken(tok) IN
  /\ IF id \notin DOMAIN instructors
     THEN UNCHANGED instructors /\ Respond("patchInstructor0", user, id, NoId, body, 404, {})
     ELSE UpdateInstructor("patchInstructor0", user, id, body, body)
  /\ UNCHANGED <<users, courses, tz, subscriptions, stripe, inflight, invites>>

(***************************************************************************)
(* Initial states and inputs                                               *)
(***************************************************************************)
\* bearer tokens: any user id, with the roles as the token spells them
Tokens == [id : UserIds, roles : {{}, {"Admin"}}]

\* the users: sign-up and invite store a username only; u3 also has an email
Users0 ==
  [u \in UserIds |->
     IF u = "u3" THEN [username |-> "M3", email |-> "m3"]
     ELSE [username |-> u, email |-> NoId]]

EmptyStore == [k \in {} |-> 0]

InitRequest ==
  /\ req = [op |-> "init", user |-> [_id |-> NoId, roles |-> {}], id |-> NoId,
            inst |-> NoId, body |-> NoBody]
  /\ res = [status |-> 0, data |-> {}]

\* no subscription yet, the payment client not configured (no secret key
\* in the environment), no request in flight
NoBilling ==
  /\ subscriptions = EmptyStore
  /\ stripe = FALSE
  /\ inflight = EmptyStore

\* instructor i1 of tenant u1 and i2 of tenant u2; i2 may be linked to u3,
\* and either may carry u3's address
InstructorConfigs ==
  {cfg \in [InstIds -> [owner : {"u1", "u2"}, user : {NoId, "u3"},
                        email : {"m3", "m9"}, name : {"n1"}]] :
     /\ cfg["i1"].owner = "u1" /\ cfg["i1"].user = NoId
     /\ cfg["i2"].owner = "u2" /\ cfg["i2"].email = "m3"}

(***************************************************************************)
(* Access: who may read and write a course                                 *)
(***************************************************************************)
AccessCreateBodies ==
  {[start_date |-> 0, end_date |-> 1, daysOfWeek |-> {0, 1},
    instructors |-> I, enrolled |-> E] :
     I \in {{}, {"i2"}}, E \in {{}, {"u3"}}}

AccessUpdateBodies ==
  {[instructors |-> {"i1", "i2"}], [end_date |-> 0]}

\* the tokens of the two tenants that create courses
OwnerTokens == [id : {"u1", "u2"}, roles : {{}}]

\* the second course is u2's, created once and left alone
OtherTenantToken == [id |-> "u2", roles |-> {}]

OtherTenantBody ==
  [start_date |-> 0, end_date |-> 1, daysOfWeek |-> {0, 1},
   instructors |-> {"i2"}, enrolled |-> {}]

InitAccess ==
  /\ users = Users0
  /\ instructors \in InstructorConfigs
  /\ courses = EmptyStore
  /\ invites = EmptyStore
  /\ NoBilling
  /\ tz = 0
  /\ InitRequest

NextAccess ==
  \/ \E tok \in OwnerTokens, body \in AccessCreateBodies :
       CreateCourse(tok, "c1", body)
  \/ CreateCourse(OtherTenantToken, "c2", OtherTenantBody)
  \/ \E tok \in Tokens, id \in CourseIds : GetCourse(tok, id)
  \/ \E tok \in Tokens, id \in CourseIds : GetCourseViaCanView(tok, id)
  \/ \E tok \in Tokens, id \in CourseIds : GetAttendance(tok, id)
  \/ \E tok \in Tokens, instructor \in {NoId, "me"} \cup InstIds :
       ListCourses(tok, instructor)
  \/ \E tok \in Tokens, body \in AccessUpdateBodies : PutCourse(tok, "c1", body)
  \/ \E tok \in Tokens, body \in AccessUpdateBodies : PatchCourse(tok, "c1", body)
  \/ \E tok \in Tokens : DeleteCourse(tok, "c1")
  \/ \E tok \in Tokens : RegenerateSessions(tok, "c1", NoBody)

Spec == InitAccess /\ [][NextAccess]_vars

(***************************************************************************)
(* Claims on access (checked under Spec)                                   *)
(***************************************************************************)
DetailOps == {"get", "view"}
WriteOps  == {"put", "patch", "delete", "regenerate"}

\* the last request addressed an existing course; a 403 leaves the store as
\* it was, so this is also the course the request met
Target == courses[req.id]
OnCourse(ops) == req.op \in ops /\ req.id \in DOMAIN courses

\* the caller was resolved to an instructor that the course lists
CallerAssigned == req.inst # NoId /\ req.inst \in Target.instructors
\* ... and that instructor is of the course's tenant
CallerTenantMatch == instructors[req.inst].owner = Target.owner

\* C1: the owner of a course is never answered 403 Forbidden, by the detail
\* read (GET /courses/:id) or by any write check (PUT, PATCH, DELETE,
\* regenerate-sessions).
C1_OwnerNeverForbidden ==
  (OnCourse(DetailOps \cup WriteOps) /\ Target.owner = req.user._id)
    => res.status # 403

\* C2: a caller who is not the owner, holds no admin-class role, is not a
\* resolved instructor both listed in the course and of its tenant, and is
\* not enrolled, is answered 403 by the detail read and given no course data.
C2_StrangerForbidden ==
  ( /\ OnCourse(DetailOps)
    /\ Target.owner # req.user._id
    /\ ~isAdmin(req.user)
    /\ ~(CallerAssigned /\ CallerTenantMatch)
    /\ req.user._id \notin Target.enrolled )
    => (res.status = 403 /\ res.data = {})

\* C3: an instructor listed in a course but owned by another tenant than
\* the course is denied the detail read (unless owner, admin-class or
\* enrolled in its own right).
C3_TenantMatchMandatory ==
  ( /\ OnCourse(DetailOps)
    /\ CallerAssigned /\ ~CallerTenantMatch
    /\ Target.owner # req.user._id
    /\ ~isAdmin(req.user)
    /\ req.user._id \notin Target.enrolled )
    => res.status = 403

\* C4: a write (PUT, PATCH, DELETE, regenerate-sessions) by a caller who is
\* not the exact owner of the course is answered 403 and leaves the store
\* unchanged, whatever the caller's roles or instructor assignment.
C4_WriteOnlyByOwner ==
  [][ ( /\ req'.op \in WriteOps
        /\ req'.id \in DOMAIN courses
        /\ courses[req'.id].owner # req'.user._id )
        => (res'.status = 403 /\ courses' = courses) ]_vars

\* C4 witness: a PUT by an admin-role caller who is also an assigned
\* instructor of the course, but not its owner, was refused.
C4_Witness ==
  /\ OnCourse({"put"}) /\ res.status = 403
  /\ "admin" \in req.user.roles
  /\ Target.owner # req.user._id
  /\ \E i \in Target.instructors : instructors[i].user = req.user._id

PlainTokens == [id : UserIds, roles : {{}}]

\* i1 of tenant u1, linked to u3; i2 of tenant u2, not linked
InstructorsLinked ==
  [i \in InstIds |->
     IF i = "i1" THEN [owner |-> "u1", user |-> "u3", email |-> "m9", name |-> "n1"]
     ELSE [owner |-> "u2", user |-> NoId, email |-> "m3", name |-> "n1"]]

InstructorBodies ==
  {[name |-> "n2"], [email |-> "M3"], [owner |-> "u3"], [user |-> "u2"],
   [name |-> "n2", email |-> "m9", owner |-> "u2", user |-> "u2"]}

InitInstructors ==
  /\ users = Users0
  /\ instructors = InstructorsLinked
  /\ courses = EmptyStore
  /\ invites = EmptyStore
  /\ NoBilling
  /\ tz = 0
  /\ InitRequest

NextInstructors ==
  \/ \E tok \in PlainTokens, id \in InstIds, body \in InstructorBodies :
       PatchInstructor(tok, id, body)
  \/ \E tok \in PlainTokens, id \in InstIds, body \in InstructorBodies :
       PatchInstructorUnchecked(tok, id, body)

SpecInstructors == InitInstructors /\ [][NextInstructors]_vars

\* C6: PATCH on an Instructor never changes its owner; by the linked user who
\* is not the owner it changes allow-listed fields only (never the user
\* linkage); by a caller who is neither it is answered 403 and changes nothing.
C6_InstructorPatchGuarded ==
  [][ (req'.op \in {"patchInstructor", "patchInstructor0"}
         /\ req'.id \in DOMAIN instructors)
      => LET before == instructors[req'.id]
             after  == instructors'[req'.id]
             uid    == req'.user._id
         IN  /\ after.owner = before.owner
             /\ (before.owner # uid /\ before.user = uid)
                  => \A f \in DOMAIN before \ SELF_EDITABLE_FIELDS : after[f] = before[f]
             /\ (before.owner # uid /\ before.user # uid)
                  => (res'.status = 403 /\ instructors' = instructors) ]_vars

(***************************************************************************)
(* Attendance                                                              *)
(***************************************************************************)
\* both instructors are of tenant u1: i1 linked to u3, i2 linked to u2
InstructorsOfOneTenant ==
  [i \in InstIds |->
     IF i = "i1" THEN [owner |-> "u1", user |-> "u3", email |-> "m9", name |-> "n1"]
     ELSE [owner |-> "u1", user |-> "u2", email |-> "m3", name |-> "n1"]]

OwnerToken == [id |-> "u1", roles |-> {}]

AttendanceCreateBodies ==
  {[start_date |-> 0, end_date |-> 1, daysOfWeek |-> {0, 1}, instructors |-> I] :
     I \in {{"i1"}, {"i1", "i2"}}}

\* the keys requests submit: a date, a positional key, and a key of neither form
AttendanceKeys == {[kind |-> "date", n |-> 0], idxKey(1), [kind |-> "other", n |-> 0]}

ListsUpTo(n) == UNION {[1..k -> AttendanceKeys] : k \in 0..n}

AttendanceBodies ==
  {[kind |-> "array", list |-> l] : l \in ListsUpTo(MaxKeys)}
    \cup {[kind |-> "object", map |-> m] :
            m \in UNION {[S -> ListsUpTo(1)] : S \in {{"i1"}, {"i1", "i2"}}}}

InitAttendance ==
  /\ users = Users0
  /\ instructors = InstructorsOfOneTenant
  /\ courses = EmptyStore
  /\ invites = EmptyStore
  /\ NoBilling
  /\ tz \in {-1, 0}
  /\ InitRequest

NextAttendance ==
  \/ \E body \in AttendanceCreateBodies : CreateCourse(OwnerToken, "c1", body)
  \/ PatchCourse(OwnerToken, "c1", [daysOfWeek |-> {1}])
  \/ \E body \in {NoBody, [end_date |-> 0]} : RegenerateSessions(OwnerToken, "c1", body)
  \/ \E tok \in PlainTokens, body \in AttendanceBodies : PutAttendance(tok, "c1", body)
  \/ \E tok \in PlainTokens : GetAttendance(tok, "c1")

SpecAttendance == InitAttendance /\ [][NextAttendance]_vars

\* the list the last attendance request submitted for instructor i (an
\* array body is the caller's own list; for the owner, whose body is read
\* as a mapping, it holds no list)
Submitted(i) ==
  IF req.body.kind = "array"
  THEN (IF req.inst = i THEN req.body.list ELSE <<>>)
  ELSE IF i \in DOMAIN req.body.map THEN req.body.map[i] ELSE <<>>

\* the entries the last attendance request wrote
Written ==
  IF req.inst # NoId THEN {req.inst} ELSE DOMAIN Target.attendance

Elems(l) == {l[k] : k \in 1..Len(l)}

FirstIndex(l, x) == CHOOSE k \in 1..Len(l) : l[k] = x /\ \A j \in 1..(k - 1) : l[j] # x

\* C7: an attendance PUT by a non-owner assigned instructor leaves every
\* other instructor's entry as it was and adds no entry but the caller's
\* own; by a non-owner who is not an assigned instructor it is answered 403
\* and changes nothing.
C7_InstructorOwnEntryOnly ==
  [][ ( /\ req'.op = "putAttendance"
        /\ req'.id \in DOMAIN courses
        /\ courses[req'.id].owner # req'.user._id )
      => LET before == courses[req'.id].attendance
             after  == courses'[req'.id].attendance
         IN  IF courseIncludesInstructor(courses[req'.id], req'.inst)
             THEN /\ \A i \in DOMAIN before \ {req'.inst} :
                        i \in DOMAIN after /\ after[i] = before[i]
                  /\ DOMAIN after \subseteq DOMAIN before \cup {req'.inst}
             ELSE res'.status = 403 /\ courses' = courses ]_vars

\* C7 witness: an assigned instructor's PUT, whose body also names another
\* instructor with a list other than the stored one, succeeded.
C7_Witness ==
  /\ OnCourse({"putAttendance"}) /\ res.status = 200
  /\ req.inst # NoId /\ Target.owner # req.user._id
  /\ req.body.kind = "object"
  /\ \E i \in DOMAIN req.body.map \cap DOMAIN Target.attendance :
       /\ i # req.inst
       /\ Target.attendance[i] # <<>>
       /\ Target.attendance[i] # req.body.map[i]

\* C8: after a successful attendance PUT every written list holds exactly
\* the submitted keys that name an existing session (by date or by
\* position), each once, in the order of their first submission; and an
\* authorised request is never refused for the keys it carries.
C8_AttendanceKeysFiltered ==
  OnCourse({"putAttendance"}) =>
    /\ res.status = 200 =>
         \A i \in Written :
           LET stored == Target.attendance[i] IN
           /\ Elems(stored) = Elems(Submitted(i)) \cap AllowedKeys(Target)
           /\ \A a, b \in 1..Len(stored) :
                a < b => FirstIndex(Submitted(i), stored[a])
                           < FirstIndex(Submitted(i), stored[b])
    /\ (Target.owner = req.user._id \/ CallerAssigned) => res.status = 200

\* C8 witness: a successful PUT whose submitted list held a key naming no
\* session stored a shorter, non-empty list.
C8_Witness ==
  /\ OnCourse({"putAttendance"}) /\ res.status = 200
  /\ \E i \in Written :
       /\ Len(Submitted(i)) > Len(Target.attendance[i])
       /\ Elems(Submitted(i)) \ AllowedKeys(Target) # {}
       /\ Target.attendance[i] # <<>>

DateBodies ==
  {[start_date |-> s, end_date |-> e, daysOfWeek |-> {0, 1}] : s, e \in Days}

DatePatches ==
  {[start_date |-> s] : s \in Days} \cup {[end_date |-> e] : e \in Days}

InitDates ==
  /\ users = Users0
  /\ instructors = InstructorsOfOneTenant
  /\ courses = EmptyStore
  /\ invites = EmptyStore
  /\ NoBilling
  /\ tz \in {-1, 0}
  /\ InitRequest

NextDates ==
  \/ \E tok \in OwnerTokens, body \in DateBodies : CreateCourse(tok, "c1", body)
  \/ \E tok \in OwnerTokens, body \in DateBodies : PutCourse(tok, "c1", body)
  \/ \E tok \in OwnerTokens, body \in DatePatches : PatchCourse(tok, "c1", body)
  \/ \E tok \in OwnerTokens : RegenerateSessions(tok, "c1", NoBody)
  \/ \E tok \in OwnerTokens : DeleteCourse(tok, "c1")

SpecDates == InitDates /\ [][NextDates]_vars

\* C10: in every reachable state, after any sequence of create, PUT and
\* PATCH requests, every stored course has end_date >= start_date (a
\* request that would break this is refused and stores nothing).
C10_EndNotBeforeStart ==
  \A c \in DOMAIN courses : courses[c].end_date >= courses[c].start_date

(***************************************************************************)
(* Resolving the caller to an instructor                                   *)
(***************************************************************************)
\* resolveOrLinkInstructorForUser: the outcome for userId, as
\* [status, id]: "linked" (direct link), "autolinked" (the one record whose
\* email is the username, which the call links), "ambiguous" (the error
\* AMBIGUOUS_INSTRUCTOR is thrown) or "none" (null)
resolveOrLinkInstructorForUser(userId) ==
  IF LinkedInstructors(userId) # {}
  THEN {[status |-> "linked", id |-> i] : i \in LinkedInstructors(userId)}
  ELSE LET uname == IF userId \in DOMAIN users
                    THEN toLowerCase(users[userId].username) ELSE NoId
           candidates == InstructorsByEmail(uname)
       IN  IF uname = NoId THEN {[status |-> "none", id |-> NoId]}
           ELSE IF Cardinality(candidates) = 1
           THEN {[status |-> "autolinked", id |-> i] : i \in candidates}
           ELSE IF Cardinality(candidates) > 1
           THEN {[status |-> "ambiguous", id |-> NoId]}
           ELSE {[status |-> "none", id |-> NoId]}

\* GET /instructors/me
GetMe(tok) ==
  LET user == verifyToken(tok) IN
  /\ \E r \in resolveOrLinkInstructorForUser(user._id) :
       CASE r.status = "ambiguous" ->
              /\ UNCHANGED instructors
              /\ Respond("me", user, NoId, NoId, NoBody, 409, {})
         [] r.status = "none" ->
              /\ UNCHANGED instructors
              /\ Respond("me", user, NoId, NoId, NoBody, 404, {})
         [] r.status = "autolinked" ->
              /\ instructors' = [instructors EXCEPT ![r.id].user = user._id]
              /\ Respond("me", user, NoId, r.id, NoBody, 200, {})
         [] OTHER ->
              /\ UNCHANGED instructors
              /\ Respond("me", user, NoId, r.id, NoBody, 200, {})
  /\ UNCHANGED <<users, courses, tz, subscriptions, stripe, inflight, invites>>

ResolveCreateBodies ==
  {[start_date |-> 0, end_date |-> 1, daysOfWeek |-> {0, 1}, instructors |-> I] :
     I \in {{}, {"i1"}, {"i1", "i2"}}}

ResolveAttendanceBodies ==
  {[kind |-> "array", list |-> l] : l \in {<<>>, <<idxKey(0)>>}}

InitResolve ==
  /\ users = Users0
  /\ instructors \in InstructorConfigs
  /\ courses = EmptyStore
  /\ invites = EmptyStore
  /\ NoBilling
  /\ tz = 0
  /\ InitRequest

NextResolve ==
  \/ \E body \in ResolveCreateBodies : CreateCourse(OwnerToken, "c1", body)
  \/ \E tok \in PlainTokens : GetMe(tok)
  \/ \E tok \in PlainTokens : GetCourse(tok, "c1")
  \/ \E tok \in PlainTokens : GetCourseViaCanView(tok, "c1")
  \/ \E tok \in PlainTokens : ListCourses(tok, "me")
  \/ \E tok \in PlainTokens : GetAttendance(tok, "c1")
  \/ \E tok \in PlainTokens, body \in ResolveAttendanceBodies :
       PutAttendance(tok, "c1", body)
  \/ \E tok \in PlainTokens : DeleteCourse(tok, "c1")

SpecResolve == InitResolve /\ [][NextResolve]_vars

\* the operations that resolve the caller to an instructor
ResolvingOps == {"me", "get", "view", "list", "getAttendance", "putAttendance"}

\* the last request's caller has no linked instructor, and more than one
\* instructor record carries the caller's username as its email
CallerAmbiguous ==
  /\ req.user._id \in DOMAIN users
  /\ LinkedInstructors(req.user._id) = {}
  /\ Cardinality(InstructorsByEmail(toLowerCase(users[req.user._id].username))) > 1

\* the last request ran the resolution: the self-lookup, the list with
\* instructor=me, or a course operation by a caller who is not the owner
ResolutionRan ==
  \/ req.op = "me"
  \/ req.op = "list" /\ req.id = "me"
  \/ /\ OnCourse(ResolvingOps \ {"me", "list"})
     /\ Target.owner # req.user._id

\* C11: whenever the caller has no linked instructor and more than one
\* instructor record has the caller's username as email, every operation
\* that resolves the caller to an instructor answers the distinct ambiguous
\* signal (409) and resolves to neither candidate.
C11_AmbiguitySignalled ==
  (CallerAmbiguous /\ ResolutionRan) => (res.status = 409 /\ req.inst = NoId)

(***************************************************************************)
(* Session generation as a function of its arguments                       *)
(***************************************************************************)
\* last calendar day of the arguments given to buildSessions (more than a
\* week, day 0 a Sunday)
MaxSpan == 8

SessionDays == 0..MaxSpan

\* the weekday (0 = Sunday) of the bare calendar date n
Weekday(n) == n % 7

WeekdaySets == {{}, {0}, {1}, {0, 1}, {6}, {2, 5}}

\* arguments with every field present; a date is a day or fails to parse
FullSessionArgs ==
  [start_date : SessionDays \cup {NaN}, end_date : SessionDays \cup {NaN},
   daysOfWeek : WeekdaySets,
   range_start_time : {"09:00"}, range_end_time : {"10:30"}]

\* the fields a call may leave out
MissingFields ==
  {{}, {"start_date"}, {"end_date"}, {"daysOfWeek"}, {"range_start_time"},
   {"range_start_time", "range_end_time"}}

SessionArgs ==
  {[f \in DOMAIN a \ F |-> a[f]] : a \in FullSessionArgs, F \in MissingFields}

InitSessions ==
  /\ users = Users0
  /\ instructors = InstructorsOfOneTenant
  /\ courses = EmptyStore
  /\ invites = EmptyStore
  /\ NoBilling
  /\ tz \in {-1, 0}
  /\ InitRequest

\* a call buildSessions(args); the response holds the returned list
CallBuildSessions(args) ==
  /\ req' = [op |-> "buildSessions", user |-> [_id |-> NoId, roles |-> {}],
             id |-> NoId, inst |-> NoId, body |-> args]
  /\ res' = [status |-> 200, data |-> buildSessions(args)]
  /\ UNCHANGED <<users, instructors, courses, tz, subscriptions, stripe, inflight, invites>>

NextSessions == \E args \in SessionArgs : CallBuildSessions(args)

SpecSessions == InitSessions /\ [][NextSessions]_vars

\* the last call had parsed dates in order and a non-empty weekday set
ValidSessionArgs ==
  /\ req.op = "buildSessions"
  /\ Has(req.body, "start_date") /\ Has(req.body, "end_date")
  /\ Has(req.body, "daysOfWeek")
  /\ ~isNaN(req.body.start_date) /\ ~isNaN(req.body.end_date)
  /\ req.body.start_date <= req.body.end_date
  /\ req.body.daysOfWeek # {}

\* C12: for parsed dates with start_date <= end_date and a non-empty weekday
\* set, the sessions returned are strictly ascending by date (no date
\* twice) and the weekday of every session date is in the requested set.
C12_SessionsSortedOnWeekdays ==
  ValidSessionArgs =>
    /\ \A a, b \in 1..Len(res.data) : a < b => res.data[a].date < res.data[b].date
    /\ \A k \in 1..Len(res.data) : Weekday(res.data[k].date) \in req.body.daysOfWeek

\* the start/end time pair a call asks for
AskedTimes ==
  [start_time |-> IF Has(req.body, "range_start_time")
                  THEN req.body.range_start_time ELSE "16:00",
   end_time   |-> IF Has(req.body, "range_end_time")
                  THEN req.body.range_end_time ELSE "18:00"]

\* C13: buildSessions returns exactly one session for every calendar day
\* from start_date to end_date inclusive whose weekday is in the set, none
\* for any other day, each with the supplied time pair ("16:00"/"18:00"
\* when unset).
C13_OneSessionPerMatchingDay ==
  ValidSessionArgs =>
    /\ {res.data[k].date : k \in 1..Len(res.data)}
         = {n \in req.body.start_date..req.body.end_date :
              Weekday(n) \in req.body.daysOfWeek}
    /\ \A a, b \in 1..Len(res.data) : a # b => res.data[a].date # res.data[b].date
    /\ \A k \in 1..Len(res.data) :
         /\ res.data[k].start_time = AskedTimes.start_time
         /\ res.data[k].end_time = AskedTimes.end_time

\* C14: buildSessions returns the empty sequence, and raises no error,
\* whenever start_date, end_date or the weekday set is missing or empty,
\* a date fails to parse, or start_date > end_date.
C14_NothingToGenerate ==
  (req.op = "buildSessions" /\ ~ValidSessionArgs) =>
    (res.status = 200 /\ res.data = <<>>)

\* C14 witness: calls with start_date after end_date, with a date that
\* fails to parse, and with no weekday set have returned.
C14_Witness ==
  /\ req.op = "buildSessions" /\ res.data = <<>>
  /\ Has(req.body, "start_date") /\ Has(req.body, "end_date")
  /\ Has(req.body, "daysOfWeek") /\ req.body.daysOfWeek # {}
  /\ isNaN(req.body.end_date) /\ ~isNaN(req.body.start_date)

(***************************************************************************)
(* Regeneration of the session list                                        *)
(***************************************************************************)
\* a session list edited by hand
ManualSessions == <<[date |-> 1, start_time |-> "10:00", end_time |-> "11:00"]>>

RegenCreateBodies ==
  {[start_date |-> 0, end_date |-> 1, daysOfWeek |-> {0, 1}],
   [start_date |-> 0, end_date |-> 1, daysOfWeek |-> {0, 1},
    courseDatesTimes |-> ManualSessions]}

RegenUpdateBodies ==
  {[end_date |-> 0], [end_date |-> 2], [daysOfWeek |-> {1}],
   [range_start_time |-> "09:00"], [instructors |-> {"i1"}],
   [_regenerateSessions |-> TRUE],
   [courseDatesTimes |-> ManualSessions],
   [start_date |-> 1, end_date |-> 2, daysOfWeek |-> {1, 2}],
   [start_date |-> 1, end_date |-> 2, daysOfWeek |-> {1, 2},
    courseDatesTimes |-> ManualSessions]}

RegenerateBodies == {NoBody, [end_date |-> 0], [daysOfWeek |-> {1}]}

InitRegen ==
  /\ users = Users0
  /\ instructors = InstructorsOfOneTenant
  /\ courses = EmptyStore
  /\ invites = EmptyStore
  /\ NoBilling
  /\ tz \in {-1, 0}
  /\ InitRequest

NextRegen ==
  \/ \E body \in RegenCreateBodies : CreateCourse(OwnerToken, "c1", body)
  \/ \E body \in RegenUpdateBodies : PutCourse(OwnerToken, "c1", body)
  \/ \E body \in RegenUpdateBodies : PatchCourse(OwnerToken, "c1", body)
  \/ \E body \in RegenerateBodies : RegenerateSessions(OwnerToken, "c1", body)
  \/ DeleteCourse(OwnerToken, "c1")

SpecRegen == InitRegen /\ [][NextRegen]_vars

RangeFields ==
  {"start_date", "end_date", "daysOfWeek", "range_start_time", "range_end_time"}

\* C15: after an owner's PUT or PATCH that changes start_date, end_date, the
\* weekday set or the time window, and after an explicitly requested
\* regeneration (_regenerateSessions, POST regenerate-sessions), the stored
\* session list is buildSessions of the course's resulting range fields.
C15_SessionsFollowRange ==
  [][ ( /\ req'.op \in {"put", "patch", "regenerate"}
        /\ res'.status = 200
        /\ req'.id \in DOMAIN courses
        /\ \/ \E f \in RangeFields : courses'[req'.id][f] # courses[req'.id][f]
           \/ req'.op = "regenerate"
           \/ Has(req'.body, "_regenerateSessions") )
      => courses'[req'.id].courseDatesTimes = buildSessions(courses'[req'.id]) ]_vars

(***************************************************************************)
(* Invite tokens                                                           *)
(***************************************************************************)
\* number of invite tokens generated in a behaviour
MaxTokens == 2

\* the raw tokens, in the order crypto.randomBytes yields them: a value is
\* never generated twice
TokenIds == 1..MaxTokens

\* ids given to the users that an invite creates
NewUserIds == {"u3", "u4"}

\* sha256 of a raw token, hex
sha256(token) == [sha256 |-> token]

\* bcrypt hash of a password
bcrypt(password) == [bcrypt |-> password]

\* String(password).length
PasswordLength(password) ==
  CASE password = "" -> 0 [] password = "short" -> 5 [] OTHER -> 9

\* The InviteToken collection, one record per token ever created, keyed by
\* the raw token it was created for.  A deleted document (deleteMany, TTL)
\* stays in the function with stored = FALSE, so that a token's history can
\* be named after its document is gone; no handler reads such a record.
\* expired stands for expiresAt <= now.
StoredTokens == {t \in DOMAIN invites : invites[t].stored}

\* findTokenDoc(rawToken): the ids of the document found (at most one ,
\* tokenHash is unique); token 0 stands for a missing token
findTokenDoc(rawToken) ==
  IF rawToken = 0 THEN {}
  ELSE {t \in StoredTokens : invites[t].tokenHash = sha256(rawToken)}

\* the test of usedAt left out
inviteCheck_reusable(rawToken) ==
  IF findTokenDoc(rawToken) = {} THEN 404
  ELSE LET tdoc == invites[CHOOSE t \in findTokenDoc(rawToken) : TRUE]
       IN  IF tdoc.expired THEN 410
           ELSE IF tdoc.user \notin DOMAIN users THEN 404
           ELSE 200

\* the checks inspect and accept-invite share: the status they answer,
\* 200 standing for "go on"
inviteCheck(rawToken) ==
  IF findTokenDoc(rawToken) = {} THEN 404
  ELSE LET tdoc == invites[CHOOSE t \in findTokenDoc(rawToken) : TRUE]
       IN  IF tdoc.usedAt THEN 410
           ELSE IF tdoc.expired THEN 410
           ELSE IF tdoc.user \notin DOMAIN users THEN 404
           ELSE 200

\* GET /auth/invite/inspect?token=...
InspectInvite(rawToken) ==
  LET st == inviteCheck(rawToken) IN
  /\ req' = [op |-> "inspect", user |-> [_id |-> NoId, roles |-> {}], id |-> NoId,
             inst |-> NoId, body |-> [token |-> rawToken, password |-> ""]]
  /\ res' = [status |-> st,
             data |-> IF st = 200
                      THEN {invites[t].user : t \in findTokenDoc(rawToken)} ELSE {}]
  /\ UNCHANGED <<users, instructors, courses, invites, tz, subscriptions, stripe, inflight>>

\* the sibling tokens are left in the collection
purgeSiblings_kept(all, id) == all

\* InviteToken.deleteMany({instructor: tdoc.instructor, _id: {$ne: tdoc._id}})
purgeSiblings(all, id) ==
  [t \in DOMAIN all |->
     IF t # id /\ all[t].instructor = all[id].instructor
     THEN [all[t] EXCEPT !.stored = FALSE] ELSE all[t]]

\* POST /auth/accept-invite
AcceptInvite(rawToken, password) ==
  LET anon == [_id |-> NoId, roles |-> {}]
      body == [token |-> rawToken, password |-> password]
      st   == IF rawToken = 0 \/ password = "" THEN 400
              ELSE IF PasswordLength(password) < 8 THEN 400
              ELSE inviteCheck(rawToken)
  IN  IF st # 200
      THEN /\ Respond("accept", anon, NoId, NoId, body, st, {})
           /\ UNCHANGED <<users, instructors, courses, invites, tz, subscriptions, stripe, inflight>>
      ELSE LET id   == CHOOSE t \in findTokenDoc(rawToken) : TRUE
               tdoc == invites[id]
           IN  /\ users' = [users EXCEPT ![tdoc.user] =
                              [@ EXCEPT !.hashedPassword = bcrypt(password),
                                        !.status = "active",
                                        !.roles = @ \cup {"instructor"},
                                        !.lastLoginAt = TRUE]]
               /\ invites' = purgeSiblings([invites EXCEPT ![id].usedAt = TRUE], id)
               /\ Respond("accept", anon, NoId, tdoc.instructor, body, 200, {tdoc.user})
               /\ UNCHANGED <<instructors, courses, tz, subscriptions, stripe, inflight>>

\* User.findOne({username})
UsersByName(username) == {u \in DOMAIN users : users[u].username = username}

\* POST /instructors/:id/invite
InviteInstructor(tok, id) ==
  LET caller == verifyToken(tok) IN
  IF id \notin DOMAIN instructors
  THEN /\ Respond("invite", caller, id, NoId, NoBody, 404, {})
       /\ UNCHANGED <<users, instructors, courses, invites, tz, subscriptions, stripe, inflight>>
  ELSE IF instructors[id].owner # caller._id
  THEN /\ Respond("invite", caller, id, NoId, NoBody, 403, {})
       /\ UNCHANGED <<users, instructors, courses, invites, tz, subscriptions, stripe, inflight>>
  ELSE
    LET instr    == instructors[id]
        username == toLowerCase(instr.email)
        found    == UsersByName(username)
        uid      == IF found # {} THEN CHOOSE u \in found : TRUE
                    ELSE CHOOSE u \in NewUserIds \ DOMAIN users : TRUE
        users1   == IF found = {}
                    THEN (uid :> [username |-> username, email |-> NoId,
                                  hashedPassword |-> bcrypt("random"),
                                  roles |-> {"instructor"}, status |-> "invited",
                                  instructor |-> NoId, lastLoginAt |-> FALSE]) @@ users
                    ELSE IF users[uid].status # "active"
                    THEN [users EXCEPT ![uid].status = "invited"]
                    ELSE users
        relink   == instr.user # uid
        instrs1  == IF relink THEN [instructors EXCEPT ![id].user = uid]
                    ELSE instructors
        users2   == IF relink THEN [users1 EXCEPT ![uid].instructor = id] ELSE users1
        token    == CHOOSE t \in TokenIds \ DOMAIN invites :
                      \A s \in TokenIds \ DOMAIN invites : t <= s
        purged   == [t \in DOMAIN invites |->
                       IF invites[t].instructor = id /\ invites[t].owner = instr.owner
                       THEN [invites[t] EXCEPT !.stored = FALSE] ELSE invites[t]]
    IN  /\ (found = {} => NewUserIds \ DOMAIN users # {})
        /\ TokenIds \ DOMAIN invites # {}
        /\ IF username = NoId
           THEN /\ Respond("invite", caller, id, NoId, NoBody, 400, {})
                /\ UNCHANGED <<users, instructors, invites>>
           ELSE IF ~InstructorIndexesOk(instrs1)
           THEN \* instr.save() is refused by the unique index on user
                /\ users' = users1
                /\ Respond("invite", caller, id, NoId, NoBody, 500, {})
                /\ UNCHANGED <<instructors, invites>>
           ELSE /\ users' = users2
                /\ instructors' = instrs1
                /\ invites' = (token :> [tokenHash |-> sha256(token), instructor |-> id,
                                         owner |-> instr.owner, user |-> uid,
                                         usedAt |-> FALSE, expired |-> FALSE,
                                         stored |-> TRUE]) @@ purged
                /\ Respond("invite", caller, id, id, [token |-> token, password |-> ""],
                           201, {})
        /\ UNCHANGED <<courses, tz, subscriptions, stripe, inflight>>

\* a step of the environment, which is no request: it is recorded as the
\* last event, with no response
Event(op) ==
  /\ req' = [op |-> op, user |-> [_id |-> NoId, roles |-> {}], id |-> NoId,
             inst |-> NoId, body |-> NoBody]
  /\ res' = [status |-> 0, data |-> {}]

\* the clock passes a token's expiresAt
ExpireToken(t) ==
  /\ t \in StoredTokens /\ ~invites[t].expired
  /\ invites' = [invites EXCEPT ![t].expired = TRUE]
  /\ Event("clock")
  /\ UNCHANGED <<users, instructors, courses, tz, subscriptions, stripe, inflight>>

\* the store's TTL index deletes an expired document
TtlDelete(t) ==
  /\ t \in StoredTokens /\ invites[t].expired
  /\ invites' = [invites EXCEPT ![t].stored = FALSE]
  /\ Event("ttl")
  /\ UNCHANGED <<users, instructors, courses, tz, subscriptions, stripe, inflight>>

\* the two tenant owners, signed up with a password
InviteUsers0 ==
  [u \in {"u1", "u2"} |->
     [username |-> u, email |-> NoId, hashedPassword |-> bcrypt("password0"),
      roles |-> {"student"}, status |-> "active", instructor |-> NoId,
      lastLoginAt |-> FALSE]]

\* i1 of tenant u1 and i2 of tenant u2, neither linked
InviteInstructors0 ==
  [i \in InstIds |->
     IF i = "i1" THEN [owner |-> "u1", user |-> NoId, email |-> "m9", name |-> "n1"]
     ELSE [owner |-> "u2", user |-> NoId, email |-> "M3", name |-> "n1"]]

Passwords == {"", "short", "password1", "password2"}

InitInvites ==
  /\ users = InviteUsers0
  /\ instructors = InviteInstructors0
  /\ courses = EmptyStore
  /\ invites = EmptyStore
  /\ NoBilling
  /\ tz = 0
  /\ InitRequest

NextInvites ==
  \/ \E tok \in OwnerTokens, id \in InstIds : InviteInstructor(tok, id)
  \/ \E t \in 0..MaxTokens : InspectInvite(t)
  \/ \E t \in 0..MaxTokens, p \in Passwords : AcceptInvite(t, p)
  \/ \E t \in TokenIds : ExpireToken(t)
  \/ \E t \in TokenIds : TtlDelete(t)
  \/ PatchInstructorUnchecked(OtherTenantToken, "i1", [owner |-> "u2"])

SpecInvites == InitInvites /\ [][NextInvites]_vars

\* the request carries what its route requires besides the token (a
\* password of 8 characters or more for accept-invite)
WellFormedInvite(r) ==
  r.op = "inspect" \/ PasswordLength(r.body.password) >= 8

C17_AcceptPurgesSiblings ==
  [][ (req'.op = "accept" /\ res'.status = 200)
      => LET T == req'.body.token
             I == invites[T].instructor
         IN  /\ invites'[T].stored /\ invites'[T].usedAt
             /\ \A s \in DOMAIN invites' \ {T} :
                  /\ invites'[s].instructor = I => ~invites'[s].stored
                  /\ invites'[s].instructor # I => invites'[s] = invites[s] ]_vars

\* C17 witness: a successful accept-invite removed another token of the same
\* instructor: one that had not expired and that the invite which created
\* the accepted token had left in place (it names another owner).
C17_Witness ==
  /\ req.op = "accept" /\ res.status = 200
  /\ \E s \in DOMAIN invites \ {req.body.token} :
       /\ invites[s].instructor = invites[req.body.token].instructor
       /\ invites[s].owner # invites[req.body.token].owner
       /\ ~invites[s].stored /\ ~invites[s].expired

(***************************************************************************)
(* Bearer-token authentication                                             *)
(***************************************************************************)
\* An Authorization header: its scheme ("none" when the header is absent)
\* and, for Bearer, the token: whether jwt.verify accepts it ("ok"), or
\* throws because it is malformed, wrongly signed or expired; the shape of
\* its payload (identity nested under payload, or flat); the field that
\* carries the identity ("none": no identity); and its roles.
Headers ==
  [scheme : {"none", "Basic", "Bearer"},
   verify : {"ok", "malformed", "badSignature", "expired"},
   shape  : {"nested", "flat"},
   idField : {"_id", "uid", "sub", "none"},
   id : {"u1"},
   roles : {{}, {"Admin"}}]

\* the identity verifyToken reads: src._id || src.uid || src.sub || '',
\* src being decoded.payload when that is an object, else decoded
tokenIdentity(h) == IF h.idField = "none" THEN NoId ELSE h.id

\* the identity extractUser reads: root.sub || root.uid || root._id ||
\* nested._id || nested.uid || nested.sub
extractUser(h) ==
  [id |-> IF h.idField = "none" THEN NoId ELSE h.id, roles |-> h.roles]

NoUser == [_id |-> NoId, roles |-> {}]

\* middleware/verify-token.js verifyToken: 401 with a message, or req.user
\* set and next() (status 200)
VerifyTokenRequest(h) ==
  /\ IF h.scheme # "Bearer"
     THEN /\ req' = [op |-> "verifyToken", user |-> NoUser, id |-> NoId,
                     inst |-> NoId, body |-> h]
          /\ res' = [status |-> 401, data |-> "Missing Bearer token."]
     ELSE IF h.verify # "ok"
     THEN /\ req' = [op |-> "verifyToken", user |-> NoUser, id |-> NoId,
                     inst |-> NoId, body |-> h]
          /\ res' = [status |-> 401, data |-> "Invalid token."]
     ELSE IF tokenIdentity(h) = NoId
     THEN /\ req' = [op |-> "verifyToken", user |-> NoUser, id |-> NoId,
                     inst |-> NoId, body |-> h]
          /\ res' = [status |-> 401, data |-> "Invalid token payload."]
     ELSE /\ req' = [op |-> "verifyToken",
                     user |-> verifyToken([id |-> tokenIdentity(h), roles |-> h.roles]),
                     id |-> NoId, inst |-> NoId, body |-> h]
          /\ res' = [status |-> 200, data |-> "next"]
  /\ UNCHANGED <<users, instructors, courses, invites, tz, subscriptions, stripe, inflight>>

\* requireAuth (the second middleware of the file): req.auth in place of
\* req.user, roles as the token spells them
RequireAuthRequest(h) ==
  /\ IF h.scheme # "Bearer"
     THEN /\ req' = [op |-> "requireAuth", user |-> NoUser, id |-> NoId,
                     inst |-> NoId, body |-> h]
          /\ res' = [status |-> 401, data |-> "Missing token"]
     ELSE IF h.verify # "ok"
     THEN /\ req' = [op |-> "requireAuth", user |-> NoUser, id |-> NoId,
                     inst |-> NoId, body |-> h]
          /\ res' = [status |-> 401, data |-> "Invalid or expired token"]
     ELSE IF extractUser(h).id = NoId
     THEN /\ req' = [op |-> "requireAuth", user |-> NoUser, id |-> NoId,
                     inst |-> NoId, body |-> h]
          /\ res' = [status |-> 401, data |-> "Invalid token payload"]
     ELSE /\ req' = [op |-> "requireAuth",
                     user |-> [_id |-> extractUser(h).id, roles |-> extractUser(h).roles],
                     id |-> NoId, inst |-> NoId, body |-> h]
          /\ res' = [status |-> 200, data |-> "next"]
  /\ UNCHANGED <<users, instructors, courses, invites, tz, subscriptions, stripe, inflight>>

InitAuth ==
  /\ users = Users0
  /\ instructors = InstructorsOfOneTenant
  /\ courses = EmptyStore
  /\ invites = EmptyStore
  /\ NoBilling
  /\ tz = 0
  /\ InitRequest

NextAuth ==
  \/ \E h \in Headers : VerifyTokenRequest(h)
  \/ \E h \in Headers : RequireAuthRequest(h)

SpecAuth == InitAuth /\ [][NextAuth]_vars

\* the request r carries a verifiable bearer token with an identity
Authentic(r) ==
  /\ r.body.scheme = "Bearer" /\ r.body.verify = "ok"
  /\ r.body.idField # "none"

AuthOps == {"verifyToken", "requireAuth"}

\* C18: a request whose bearer token is missing, malformed, invalid,
\* expired or without identity is answered 401 with no user set and no
\* handler run, and the answer is the same whichever check failed: two
\* such requests to the same middleware, one after the other, get the same
\* response.
C18_UniformUnauthorized ==
  [][ (req'.op \in AuthOps /\ ~Authentic(req'))
      => /\ res'.status = 401
         /\ req'.user = NoUser
         /\ (req.op = req'.op /\ ~Authentic(req)) => res' = res ]_vars

(***************************************************************************)
(* Reading and deleting instructors; the other course lists                *)
(***************************************************************************)
\* GET /instructors/:id  (part_006: owner or linked user)
GetInstructor(tok, id) ==
  LET user == verifyToken(tok) IN
  /\ IF id \notin DOMAIN instructors
     THEN Respond("getInstructor", user, id, NoId, NoBody, 404, {})
     ELSE IF ~canAccess(instructors[id], user._id)
     THEN Respond("getInstructor", user, id, NoId, NoBody, 403, {})
     ELSE Respond("getInstructor", user, id, NoId, NoBody, 200, {id})
  /\ UNCHANGED <<users, instructors, courses, invites, tz, subscriptions, stripe, inflight>>

\* GET /instructors/:id  (controllers/instructors.js)
GetInstructorUnchecked(tok, id) ==
  LET user == verifyToken(tok) IN
  /\ IF id \notin DOMAIN instructors
     THEN Respond("getInstructor0", user, id, NoId, NoBody, 404, {})
     ELSE Respond("getInstructor0", user, id, NoId, NoBody, 200, {id})
  /\ UNCHANGED <<users, instructors, courses, invites, tz, subscriptions, stripe, inflight>>

\* GET /instructors  (part_006: filter {owner: req.user._id})
ListInstructors(tok) ==
  LET user == verifyToken(tok) IN
  /\ Respond("listInstructors", user, NoId, NoId, NoBody, 200,
             {i \in DOMAIN instructors : instructors[i].owner = user._id})
  /\ UNCHANGED <<users, instructors, courses, invites, tz, subscriptions, stripe, inflight>>

\* GET /instructors  (controllers/instructors.js: filter {} without ?q)
ListInstructorsUnscoped(tok) ==
  LET user == verifyToken(tok) IN
  /\ Respond("listInstructors0", user, NoId, NoId, NoBody, 200, DOMAIN instructors)
  /\ UNCHANGED <<users, instructors, courses, invites, tz, subscriptions, stripe, inflight>>

\* DELETE /instructors/:id  (part_006: owner only)
DeleteInstructor(tok, id) ==
  LET user == verifyToken(tok) IN
  /\ IF id \notin DOMAIN instructors
     THEN UNCHANGED instructors
          /\ Respond("deleteInstructor", user, id, NoId, NoBody, 404, {})
     ELSE IF instructors[id].owner # user._id
     THEN UNCHANGED instructors
          /\ Respond("deleteInstructor", user, id, NoId, NoBody, 403, {})
     ELSE /\ instructors' = Without(instructors, id)
          /\ Respond("deleteInstructor", user, id, NoId, NoBody, 204, {})
  /\ UNCHANGED <<users, courses, invites, tz, subscriptions, stripe, inflight>>

\* DELETE /instructors/:id  (controllers/instructors.js)
DeleteInstructorUnchecked(tok, id) ==
  LET user == verifyToken(tok) IN
  /\ IF id \notin DOMAIN instructors
     THEN UNCHANGED instructors
          /\ Respond("deleteInstructor0", user, id, NoId, NoBody, 404, {})
     ELSE /\ instructors' = Without(instructors, id)
          /\ Respond("deleteInstructor0", user, id, NoId, NoBody, 204, {})
  /\ UNCHANGED <<users, courses, invites, tz, subscriptions, stripe, inflight>>

\* the courses that list an instructor, or carry a rate for it
CoursesOfInstructor(instructorId) ==
  {c \in DOMAIN courses :
     \/ instructorId \in courses[c].instructors
     \/ instructorId \in DOMAIN courses[c].instructorRates}

\* GET /courses  (controllers/courses.js): every branch sets filter.owner
ListCoursesScoped(tok, instructor) ==
  LET user == verifyToken(tok) IN
  /\ IF instructor = NoId
     THEN Respond("listScoped", user, instructor, NoId, NoBody, 200,
                  {c \in DOMAIN courses : courses[c].owner = user._id})
     ELSE \E meInst \in findInstructorForUser(user._id) :
            IF instructor = "me"
            THEN IF meInst = NoId
                 THEN Respond("listScoped", user, instructor, NoId, NoBody, 200, {})
                 ELSE Respond("listScoped", user, instructor, meInst, NoBody, 200,
                              {c \in CoursesOfInstructor(meInst) :
                                 courses[c].owner = instructors[meInst].owner})
            ELSE LET owner == IF meInst # NoId /\ meInst = instructor
                              THEN instructors[meInst].owner ELSE user._id
                 IN  Respond("listScoped", user, instructor, meInst, NoBody, 200,
                             {c \in CoursesOfInstructor(instructor) :
                                courses[c].owner = owner})
  /\ UNCHANGED <<users, instructors, courses, invites, tz, subscriptions, stripe, inflight>>

\* GET /courses/instructors/:instructorId/courses
ListInstructorCourses(tok, instructorId) ==
  LET user == verifyToken(tok) IN
  /\ \E meInst \in findInstructorForUser(user._id) :
       IF instructorId \notin DOMAIN instructors
       THEN Respond("listByInstructor", user, instructorId, meInst, NoBody, 200, {})
       ELSE LET owner == IF meInst # NoId /\ meInst = instructorId
                         THEN instructors[instructorId].owner ELSE user._id
            IN  Respond("listByInstructor", user, instructorId, meInst, NoBody, 200,
                        {c \in CoursesOfInstructor(instructorId) :
                           courses[c].owner = owner})
  /\ UNCHANGED <<users, instructors, courses, invites, tz, subscriptions, stripe, inflight>>

(***************************************************************************)
(* Tenants: what exists, and whose data a response carries                 *)
(***************************************************************************)
\* i1 of tenant u1, not linked; i2 of tenant u2, linked to u3
TenantInstructors ==
  [i \in InstIds |->
     IF i = "i1" THEN [owner |-> "u1", user |-> NoId, email |-> "m9", name |-> "n1"]
     ELSE [owner |-> "u2", user |-> "u3", email |-> "m3", name |-> "n1"]]

TenantCreateBodies ==
  {[start_date |-> 0, end_date |-> 1, daysOfWeek |-> {0, 1}, instructors |-> I] :
     I \in {{"i1"}, {"i1", "i2"}}}

TenantAttendanceBody == [kind |-> "array", list |-> <<idxKey(0)>>]

InitTenants ==
  /\ users = Users0
  /\ instructors = TenantInstructors
  /\ courses = EmptyStore
  /\ invites = EmptyStore
  /\ NoBilling
  /\ tz = 0
  /\ InitRequest

NextTenants ==
  \/ \E body \in TenantCreateBodies : CreateCourse(OwnerToken, "c1", body)
  \/ CreateCourse(OtherTenantToken, "c2", OtherTenantBody)
  \/ \E tok \in Tokens, id \in CourseIds : GetCourse(tok, id)
  \/ \E tok \in Tokens, id \in CourseIds : GetCourseViaCanView(tok, id)
  \/ \E tok \in Tokens, id \in CourseIds : GetAttendance(tok, id)
  \/ \E tok \in Tokens, id \in CourseIds : PutAttendance(tok, id, TenantAttendanceBody)
  \/ \E tok \in Tokens : PutCourse(tok, "c1", [end_date |-> 1])
  \/ \E tok \in Tokens : PatchCourse(tok, "c1", [end_date |-> 1])
  \/ \E tok \in Tokens : RegenerateSessions(tok, "c1", NoBody)
  \/ \E tok \in Tokens : DeleteCourse(tok, "c1")
  \/ \E tok \in Tokens, instructor \in {NoId, "me"} \cup InstIds :
       ListCourses(tok, instructor)
  \/ \E tok \in Tokens, instructor \in {NoId, "me"} \cup InstIds :
       ListCoursesScoped(tok, instructor)
  \/ \E tok \in Tokens, id \in InstIds : ListInstructorCourses(tok, id)
  \/ \E tok \in Tokens, id \in InstIds : GetInstructor(tok, id)
  \/ \E tok \in Tokens, id \in InstIds : GetInstructorUnchecked(tok, id)
  \/ \E tok \in Tokens : ListInstructors(tok)
  \/ \E tok \in Tokens : ListInstructorsUnscoped(tok)
  \/ \E tok \in Tokens, id \in InstIds : PatchInstructor(tok, id, [name |-> "n2"])
  \/ \E tok \in Tokens : PatchInstructorUnchecked(tok, "i1", [name |-> "n2"])
  \/ \E tok \in Tokens : DeleteInstructor(tok, "i1")
  \/ \E tok \in Tokens : DeleteInstructorUnchecked(tok, "i1")

SpecTenants == InitTenants /\ [][NextTenants]_vars

\* the operations addressed to one course, and to one instructor, by id
CourseIdOps ==
  {"get", "view", "put", "patch", "delete", "regenerate",
   "getAttendance", "putAttendance"}

InstructorIdOps ==
  {"getInstructor", "getInstructor0", "patchInstructor", "patchInstructor0",
   "deleteInstructor", "deleteInstructor0"}

\* C19: an operation addressed to a Course or Instructor id that does not
\* exist is answered 404 whatever the caller's ownership, linkage or roles,
\* and 403 is answered only for a resource that exists.
C19_NotFoundBeforeForbidden ==
  [][ /\ req'.op \in CourseIdOps =>
           /\ req'.id \notin DOMAIN courses => res'.status = 404
           /\ res'.status = 403 => req'.id \in DOMAIN courses
      /\ req'.op \in InstructorIdOps =>
           /\ req'.id \notin DOMAIN instructors => res'.status = 404
           /\ res'.status = 403 => req'.id \in DOMAIN instructors ]_vars

\* C19 witness: an admin-role caller who owns nothing asked to delete an
\* instructor that had been deleted, and was answered 404.
C19_Witness ==
  /\ req.op = "deleteInstructor" /\ res.status = 404
  /\ req.id \notin DOMAIN instructors
  /\ req.user._id = "u3" /\ "admin" \in req.user.roles
  /\ \E c \in DOMAIN courses : req.id \in courses[c].instructors

\* the caller of the last request is linked to no instructor, by user or by
\* username or email, and holds no admin-class role
CallerUnlinked ==
  /\ ~isAdmin(req.user)
  /\ findInstructorForUser(req.user._id) = {NoId}
  /\ resolveInstructorIdForUser(req.user._id) = {NoId}

CourseReadOps == {"list", "listScoped", "listByInstructor"}

InstructorReadOps ==
  {"listInstructors", "listInstructors0", "getInstructor", "getInstructor0"}

\* C20: to a caller who is linked to no instructor and holds no admin-class
\* role, the course list (whatever its instructor parameter) and the
\* instructor list and detail return only courses and instructors whose
\* owner is the caller.
C20_TenantIsolation ==
  CallerUnlinked =>
    /\ req.op \in CourseReadOps =>
         \A c \in res.data : courses[c].owner = req.user._id
    /\ req.op \in InstructorReadOps =>
         \A i \in res.data : instructors[i].owner = req.user._id

(***************************************************************************)
(* Creating accounts and instructors; linking a user                       *)
(***************************************************************************)
\* String.prototype.trim on the strings the model uses
trim(s) == IF s = " u1" THEN "u1" ELSE s

\* the required paths of the Instructor schema (owner is set by the route)
InstructorRequired == {"name", "email", "bio"}

\* Document validation of an Instructor: every required path present and
\* not the empty string
InstructorValid(doc) ==
  \A f \in InstructorRequired : Has(doc, f) /\ doc[f] # ""

\* what the store keeps of a created Instructor
InstructorDoc(payload) ==
  Spread([user |-> NoId], [f \in DOMAIN payload \cap
                             {"owner", "user", "email", "name", "bio"} |-> payload[f]])

\* POST /instructors  (part_006); an error of Instructor.create goes to
\* next(err), which the application answers with 500
CreateInstructor(tok, id, body) ==
  LET user    == verifyToken(tok)
      payload == Spread(sanitizeUpdatable(body), [owner |-> user._id])
      noEmail == ~Has(payload, "email") \/ payload.email = ""
      noName  == ~Has(payload, "name") \/ payload.name = ""
      doc     == InstructorDoc(CastInstructor(payload))
      next    == (id :> doc) @@ instructors
  IN  /\ id \notin DOMAIN instructors
      /\ IF noEmail /\ noName
         THEN /\ UNCHANGED instructors
              /\ Respond("createInstructor", user, id, NoId, body, 400, {})
         ELSE IF ~InstructorValid(doc) \/ ~InstructorIndexesOk(next)
         THEN /\ UNCHANGED instructors
              /\ Respond("createInstructor", user, id, NoId, body, 500, {})
         ELSE /\ instructors' = next
              /\ Respond("createInstructor", user, id, NoId, body, 201, {id})
      /\ UNCHANGED <<users, courses, invites, tz, subscriptions, stripe, inflight>>

\* the caller of a route without verifyToken
Anonymous == [_id |-> NoId, roles |-> {}]

\* POST /auth/sign-up: the look-up uses the username as sent, the schema
\* stores it trimmed; every error of the try block is answered 400
SignUp(id, body) ==
  LET stored == trim(body.username) IN
  /\ id \notin DOMAIN users
  /\ IF UsersByName(body.username) # {}
     THEN /\ UNCHANGED users
          /\ Respond("signUp", Anonymous, id, NoId, body, 409, {})
     ELSE IF ~Has(body, "password") \/ stored = "" \/ UsersByName(stored) # {}
     THEN /\ UNCHANGED users
          /\ Respond("signUp", Anonymous, id, NoId, body, 400, {})
     ELSE /\ users' = (id :> [username |-> stored, email |-> NoId,
                              hashedPassword |-> bcrypt(body.password),
                              roles |-> {"student"}, status |-> "active",
                              instructor |-> NoId, lastLoginAt |-> FALSE]) @@ users
          /\ Respond("signUp", Anonymous, id, NoId, body, 201, {id})
  /\ UNCHANGED <<instructors, courses, invites, tz, subscriptions, stripe, inflight>>

\* POST /instructors/:id/link-user; body.name is email ?? username
LinkUser(tok, id, body) ==
  LET caller == verifyToken(tok)
      raw    == toLowerCase(trim(body.name))
      found  == UsersByName(raw)
  IN  IF id \notin DOMAIN instructors
      THEN /\ Respond("linkUser", caller, id, NoId, body, 404, {})
           /\ UNCHANGED <<users, instructors, courses, invites, tz, subscriptions, stripe, inflight>>
      ELSE IF instructors[id].owner # caller._id
      THEN /\ Respond("linkUser", caller, id, NoId, body, 403, {})
           /\ UNCHANGED <<users, instructors, courses, invites, tz, subscriptions, stripe, inflight>>
      ELSE IF raw = ""
      THEN /\ Respond("linkUser", caller, id, NoId, body, 400, {})
           /\ UNCHANGED <<users, instructors, courses, invites, tz, subscriptions, stripe, inflight>>
      ELSE IF found = {}
      THEN /\ Respond("linkUser", caller, id, NoId, body, 404, {})
           /\ UNCHANGED <<users, instructors, courses, invites, tz, subscriptions, stripe, inflight>>
      ELSE \E uid \in found :
             LET next == [instructors EXCEPT ![id].user = uid] IN
             IF ~InstructorIndexesOk(next)
             THEN /\ Respond("linkUser", caller, id, NoId, body, 500, {})
                  /\ UNCHANGED <<users, instructors, courses, invites, tz, subscriptions, stripe, inflight>>
             ELSE /\ instructors' = next
                  /\ users' = [users EXCEPT ![uid].roles = @ \cup {"instructor"}]
                  /\ Respond("linkUser", caller, id, id, body, 200, {})
                  /\ UNCHANGED <<courses, invites, tz, subscriptions, stripe, inflight>>

\* three accounts: the two tenant owners and the user m3
AccountUsers0 ==
  [u \in UserIds |->
     [username |-> IF u = "u3" THEN "m3" ELSE u, email |-> NoId,
      hashedPassword |-> bcrypt("password0"), roles |-> {"student"},
      status |-> "active", instructor |-> NoId, lastLoginAt |-> FALSE]]

\* i1 of tenant u1 (address m9) and i2 of tenant u2 (address m3), each with
\* a bio, neither linked
AccountInstructors0 ==
  [i \in InstIds |->
     [owner |-> IF i = "i1" THEN "u1" ELSE "u2", user |-> NoId,
      email |-> IF i = "i1" THEN "m9" ELSE "m3", name |-> "n1", bio |-> "b"]]

InstructorCreateBodies ==
  {[name |-> "n3", email |-> e, bio |-> "b"] : e \in {"m9", "M3", "m7"}}
    \cup {[name |-> "n3", email |-> "m7"], [bio |-> "b"],
          [name |-> "n3", email |-> "m7", bio |-> "b", user |-> "u3"]}

SignUpBodies ==
  {[username |-> n, password |-> "password1"] : n \in {"u1", " u1", "u9", ""}}
    \cup {[username |-> "u9"]}

CourseCreateBodies ==
  {[start_date |-> s, end_date |-> e, daysOfWeek |-> {0}] : s, e \in {0, 1}}
    \cup {[end_date |-> 1, daysOfWeek |-> {0}]}

LinkBodies == {[name |-> n] : n \in {"M3", "u1", "u8", ""}}

InitAccounts ==
  /\ users = AccountUsers0
  /\ instructors = AccountInstructors0
  /\ courses = EmptyStore
  /\ invites = EmptyStore
  /\ NoBilling
  /\ tz = 0
  /\ InitRequest

NextAccounts ==
  \/ \E tok \in OwnerTokens, body \in InstructorCreateBodies :
       CreateInstructor(tok, "i3", body)
  \/ \E body \in SignUpBodies : SignUp("u4", body)
  \/ \E tok \in OwnerTokens, body \in CourseCreateBodies : CreateCourse(tok, "c1", body)
  \/ \E tok \in OwnerTokens, id \in InstIds, body \in LinkBodies : LinkUser(tok, id, body)
  \/ \E tok \in OwnerTokens, id \in InstIds, e \in {"m9", "m3"} :
       PatchInstructor(tok, id, [email |-> e])

SpecAccounts == InitAccounts /\ [][NextAccounts]_vars

\* the request r, sent in the state it is judged in, breaks a schema
\* constraint of the document it creates
SchemaViolation(r) ==
  \/ /\ r.op = "createInstructor"
     /\ \E f \in InstructorRequired : ~Has(r.body, f) \/ r.body[f] = ""
  \/ /\ r.op = "signUp"
     /\ ~Has(r.body, "password") \/ trim(r.body.username) = ""
  \/ /\ r.op = "create"
     /\ \/ ~Has(r.body, "start_date") \/ ~Has(r.body, "end_date")
        \/ r.body.end_date < r.body.start_date

\* the request r, which breaks no schema constraint, would store a second
\* document with a unique key that `all` (instructors) or `us` (users) holds
UniqueCollision(r, all, us) ==
  /\ ~SchemaViolation(r)
  /\ \/ /\ r.op = "createInstructor"
        /\ \E i \in DOMAIN all :
             \/ all[i].owner = r.user._id /\ all[i].email = toLowerCase(r.body.email)
             \/ Has(r.body, "user") /\ all[i].user = r.body.user
     \/ /\ r.op = "signUp"
        /\ \E u \in DOMAIN us : us[u].username = trim(r.body.username)
     \/ /\ r.op = "patchInstructor" /\ r.id \in DOMAIN all
        /\ all[r.id].owner = r.user._id
        /\ \E i \in DOMAIN all \ {r.id} :
             all[i].owner = all[r.id].owner /\ all[i].email = r.body.email
     \/ /\ r.op = "linkUser" /\ r.id \in DOMAIN all
        /\ all[r.id].owner = r.user._id
        /\ \E i \in DOMAIN all \ {r.id}, u \in DOMAIN us :
             us[u].username = toLowerCase(trim(r.body.name)) /\ all[i].user = u

\* C21: a create or update that breaks a schema constraint is answered 400,
\* one that collides with a unique key (instructor email within one owner,
\* username at sign-up, second instructor linked to one user) is answered
\* 409, and in both cases the stored data is unchanged.
C21_ValidationAndConflictSignals ==
  [][ /\ SchemaViolation(req') =>
           res'.status = 400 /\ UNCHANGED <<users, instructors, courses>>
      /\ UniqueCollision(req', instructors, users) =>
           res'.status = 409 /\ UNCHANGED <<users, instructors, courses>> ]_vars

(***************************************************************************)
(* Linking instructors to users                                            *)
(***************************************************************************)
LinkPatchBodies == {[user |-> "u3"], [user |-> "u1"], [email |-> "m3"]}

InitLinks ==
  /\ users = AccountUsers0
  /\ instructors = AccountInstructors0
  /\ courses = EmptyStore
  /\ invites = EmptyStore
  /\ NoBilling
  /\ tz = 0
  /\ InitRequest

NextLinks ==
  \/ \E tok \in OwnerTokens, id \in InstIds : InviteInstructor(tok, id)
  \/ \E tok \in OwnerTokens, id \in InstIds, body \in LinkBodies : LinkUser(tok, id, body)
  \/ \E tok \in PlainTokens : GetMe(tok)
  \/ \E tok \in PlainTokens, id \in InstIds, body \in LinkPatchBodies :
       PatchInstructor(tok, id, body)
  \/ \E tok \in PlainTokens, body \in LinkPatchBodies :
       PatchInstructorUnchecked(tok, "i1", body)

SpecLinks == InitLinks /\ [][NextLinks]_vars

\* no two Instructor records are linked to the same user
UniqueLink ==
  \A i, j \in DOMAIN instructors :
    (i # j /\ instructors[i].user # NoId) => instructors[i].user # instructors[j].user

\* the instructors whose email is the (trimmed, lower-cased) username of u
NamedAfter(u) ==
  IF u \in DOMAIN users
  THEN InstructorsByEmail(toLowerCase(trim(users[u].username))) ELSE {}

\* a first GET /instructors/me of an unlinked user named after exactly one
\* instructor links that instructor and returns it
MeLinks ==
  (/\ req'.op = "me"
   /\ LinkedInstructors(req'.user._id) = {}
   /\ Cardinality(NamedAfter(req'.user._id)) = 1)
  => /\ res'.status = 200
     /\ req'.inst \in NamedAfter(req'.user._id)
     /\ instructors' = [instructors EXCEPT ![req'.inst].user = req'.user._id]

\* a GET /instructors/me that follows a successful one of the same user
\* returns the same instructor and writes nothing
MeIdempotent ==
  (/\ req.op = "me" /\ res.status = 200
   /\ req'.op = "me" /\ req'.user._id = req.user._id)
  => /\ res' = res /\ req'.inst = req.inst
     /\ UNCHANGED <<users, instructors, invites>>

\* C22: after any sequence of invite, link-user, GET /instructors/me and
\* instructor PATCH requests no two instructors have the same linked user;
\* a first GET /instructors/me of a user with no link and exactly one
\* instructor whose email is the username links that instructor, and a
\* repeated call returns the same instructor and changes nothing.
C22_OneInstructorPerUser ==
  []UniqueLink /\ [][MeLinks /\ MeIdempotent]_vars

\* C22 witness: u3, never invited nor linked by an owner, asked for
\* /instructors/me and holds the link to the one instructor carrying its
\* username.
C22_Witness ==
  /\ req.op = "me" /\ res.status = 200 /\ req.user._id = "u3"
  /\ instructors[req.inst].user = "u3"
  /\ NamedAfter("u3") = {req.inst}
  /\ users["u3"].instructor = NoId /\ "instructor" \notin users["u3"].roles

(***************************************************************************)
(* Course virtuals: hours and money                                        *)
(*                                                                         *)
(* A time string is the sequence of its characters.  Hours are counted in  *)
(* sixtieths (minutes), so that (end - start) / 60 stays an integer; the   *)
(* amounts that are products of hours are in sixtieths as well.            *)
(***************************************************************************)
\* longest session list of a course whose hours are computed
MaxSessions == 2

DigitChars == <<"0", "1", "2", "3", "4", "5", "6", "7", "8", "9">>

IsDigit(c) == \E d \in 1..10 : DigitChars[d] = c

DigitValue(c) == (CHOOSE d \in 1..10 : DigitChars[d] = c) - 1

RECURSIVE SplitLoop(_, _, _)
SplitLoop(s, sep, cur) ==
  IF s = <<>> THEN <<cur>>
  ELSE IF Head(s) = sep THEN <<cur>> \o SplitLoop(Tail(s), sep, <<>>)
  ELSE SplitLoop(Tail(s), sep, Append(cur, Head(s)))

\* String.prototype.split(sep)
split(s, sep) == SplitLoop(s, sep, <<>>)

RECURSIVE ParseIntLoop(_, _, _)
ParseIntLoop(s, acc, seen) ==
  IF s # <<>> /\ IsDigit(Head(s))
  THEN ParseIntLoop(Tail(s), acc * 10 + DigitValue(Head(s)), TRUE)
  ELSE IF seen THEN acc ELSE NaN

\* parseInt(s, 10): the leading digits, whatever follows; NaN without any
parseInt(s) == ParseIntLoop(s, 0, FALSE)

\* hhmmToMinutes.  With a single part m is undefined, which Number.isNaN
\* does not report, and h * 60 + undefined is NaN.
hhmmToMinutes(hhmm) ==
  IF hhmm = <<>> THEN 0
  ELSE LET parts == split(hhmm, ":")
           h == parseInt(parts[1])
           m == IF Len(parts) >= 2 THEN parseInt(parts[2]) ELSE 0
       IN  IF isNaN(h) \/ (Len(parts) >= 2 /\ isNaN(m)) THEN 0
           ELSE IF Len(parts) < 2 THEN NaN
           ELSE h * 60 + m

\* diffHours without the step over midnight
diffHours_sameDay(startHHMM, endHHMM) ==
  LET start == hhmmToMinutes(startHHMM)
      end   == hhmmToMinutes(endHHMM)
  IN  IF isNaN(start) \/ isNaN(end) THEN NaN ELSE end - start

\* diffHours, in sixtieths of an hour; a comparison with NaN is false and
\* arithmetic on NaN is NaN
diffHours(startHHMM, endHHMM) ==
  LET start == hhmmToMinutes(startHHMM)
      end   == hhmmToMinutes(endHHMM)
  IN  IF isNaN(start) \/ isNaN(end) THEN NaN
      ELSE IF end < start THEN end + 24 * 60 - start
      ELSE end - start

\* a + b of two numbers either of which may be NaN
Plus(a, b) == IF isNaN(a) \/ isNaN(b) THEN NaN ELSE a + b

\* virtual totalSessions
totalSessions(doc) == Len(doc.courseDatesTimes)

RECURSIVE ReduceHours(_, _)
ReduceHours(list, sum) ==
  IF list = <<>> THEN sum
  ELSE ReduceHours(Tail(list),
                   Plus(sum, diffHours(Head(list).start_time, Head(list).end_time)))

\* virtual totalHours, in sixtieths of an hour
totalHours(doc) == ReduceHours(doc.courseDatesTimes, 0)

\* virtual revenue
revenue(doc) == doc.cost * doc.students

RECURSIVE SumValues(_, _)
SumValues(map, keys) ==
  IF keys = {} THEN 0
  ELSE LET k == CHOOSE x \in keys : TRUE
       IN  map[k] + SumValues(map, keys \ {k})

\* virtual instructorExpense, in sixtieths: hours is totalHours || 0
instructorExpense(doc) ==
  LET hours == IF isNaN(totalHours(doc)) THEN 0 ELSE totalHours(doc)
  IN  SumValues(doc.instructorRates, DOMAIN doc.instructorRates) * hours

\* virtual profit, in sixtieths
profit(doc) == 60 * revenue(doc) - instructorExpense(doc) - 60 * doc.materialsCost

\* toJSON({virtuals: true}) of a course: the computed fields
Virtuals(doc) ==
  [totalSessions |-> totalSessions(doc), totalHours |-> totalHours(doc),
   revenue |-> revenue(doc), instructorExpense |-> instructorExpense(doc),
   profit |-> profit(doc)]

\* "HH:mm" strings, and strings that are not
GoodTimes ==
  { <<"0", "9", ":", "0", "0">>, <<"1", "0", ":", "3", "0">>,
    <<"2", "3", ":", "0", "0">>, <<"0", "1", ":", "0", "0">> }

BadTimes ==
  { <<"x">>, <<"9">>, <<"1", "x", ":", "3", "0">>, <<"0", "9", ":">> }

TimeStrings == GoodTimes \cup BadTimes

SessionOf(s, e) == [date |-> 0, start_time |-> s, end_time |-> e]

SessionLists ==
  UNION {[1..n -> {SessionOf(s, e) : s, e \in TimeStrings}] : n \in 0..MaxSessions}

\* 09:00-10:30, 23:00-01:00 and 09:00-10:30 again: five hours
FiveHours ==
  << SessionOf(<<"0", "9", ":", "0", "0">>, <<"1", "0", ":", "3", "0">>),
     SessionOf(<<"2", "3", ":", "0", "0">>, <<"0", "1", ":", "0", "0">>),
     SessionOf(<<"0", "9", ":", "0", "0">>, <<"1", "0", ":", "3", "0">>) >>

RateMaps ==
  UNION {[K -> {10, 20}] : K \in SUBSET {"A", "B"}}

\* the courses read: every session list with one set of amounts, and every
\* set of amounts with the five-hour list or none
VirtualDocs ==
  {[courseDatesTimes |-> l, cost |-> 100, students |-> 10,
    instructorRates |-> [k \in {"A"} |-> 20], materialsCost |-> 50] :
     l \in SessionLists}
  \cup
  {[courseDatesTimes |-> l, cost |-> c, students |-> n,
    instructorRates |-> r, materialsCost |-> m] :
     l \in {<<>>, FiveHours}, c \in {0, 100}, n \in {0, 10}, r \in RateMaps,
     m \in {0, 50}}

\* a course document is loaded
InitVirtuals ==
  /\ users = Users0
  /\ instructors = EmptyStore
  /\ courses = EmptyStore
  /\ invites = EmptyStore
  /\ NoBilling
  /\ tz = 0
  /\ \E doc \in VirtualDocs :
       req = [op |-> "load", user |-> Anonymous, id |-> NoId, inst |-> NoId,
              body |-> doc]
  /\ res = [status |-> 0, data |-> {}]

\* the loaded document is serialized with its virtuals
ReadVirtuals ==
  /\ req.op = "load"
  /\ req' = [req EXCEPT !.op = "virtuals"]
  /\ res' = [status |-> 200, data |-> Virtuals(req.body)]
  /\ UNCHANGED <<users, instructors, courses, invites, tz, subscriptions, stripe, inflight>>

NextVirtuals == ReadVirtuals

SpecVirtuals == InitVirtuals /\ [][NextVirtuals]_vars

\* two digits, a colon, two digits; hour below 24 and minute below 60
IsHHmm(t) ==
  /\ Len(t) = 5 /\ t[3] = ":"
  /\ \A p \in {1, 2, 4, 5} : IsDigit(t[p])
  /\ 10 * DigitValue(t[1]) + DigitValue(t[2]) < 24
  /\ 10 * DigitValue(t[4]) + DigitValue(t[5]) < 60

\* minutes since midnight of an "HH:mm" string
ClockMinutes(t) ==
  (10 * DigitValue(t[1]) + DigitValue(t[2])) * 60
    + 10 * DigitValue(t[4]) + DigitValue(t[5])

\* length of a session in minutes, the end on the next day when it is
\* earlier than the start
SessionMinutes(s) ==
  LET a == ClockMinutes(s.start_time)
      b == ClockMinutes(s.end_time)
  IN  IF b < a THEN b + 1440 - a ELSE b - a

RECURSIVE SumMinutes(_)
SumMinutes(list) ==
  IF list = <<>> THEN 0 ELSE SessionMinutes(Head(list)) + SumMinutes(Tail(list))

WellTimed(s) == IsHHmm(s.start_time) /\ IsHHmm(s.end_time)

ReadCourse == req.body

\* C23: totalHours is the sum over the sessions of end_time - start_time in
\* minutes since midnight, 24 hours added to an end before the start (a
\* single 09:00-10:30 session gives 90 minutes, a single 23:00-01:00 session
\* 120 minutes), and totalSessions is the number of sessions.
C23_TotalHoursIsSumOfSessions ==
  req.op = "virtuals" =>
    /\ res.data.totalSessions = Len(ReadCourse.courseDatesTimes)
    /\ (\A i \in 1..Len(ReadCourse.courseDatesTimes) :
          WellTimed(ReadCourse.courseDatesTimes[i]))
         => res.data.totalHours = SumMinutes(ReadCourse.courseDatesTimes)
    /\ ReadCourse.courseDatesTimes =
         <<SessionOf(<<"0", "9", ":", "0", "0">>, <<"1", "0", ":", "3", "0">>)>>
         => res.data.totalHours = 90
    /\ ReadCourse.courseDatesTimes =
         <<SessionOf(<<"2", "3", ":", "0", "0">>, <<"0", "1", ":", "0", "0">>)>>
         => res.data.totalHours = 120

\* C23 witness: a course with a session over midnight and a second session
\* was read, and its hours are those of both.
C23_Witness ==
  /\ req.op = "virtuals"
  /\ Len(ReadCourse.courseDatesTimes) = 2
  /\ \A i \in 1..2 : WellTimed(ReadCourse.courseDatesTimes[i])
  /\ \E i \in 1..2 :
       ClockMinutes(ReadCourse.courseDatesTimes[i].end_time)
         < ClockMinutes(ReadCourse.courseDatesTimes[i].start_time)
  /\ res.data.totalHours = 210

\* C24: a session whose start_time or end_time is a malformed time string
\* contributes 0 hours to totalHours whatever its other time is: the total
\* is the total of the sessions with two well-formed times.
C24_MalformedSessionCountsZero ==
  req.op = "virtuals" =>
    res.data.totalHours = SumMinutes(SelectSeq(ReadCourse.courseDatesTimes, WellTimed))

\* the sum of the hourly rates of instructors A and B, each where present
RateSum(rates) ==
  (IF "A" \in DOMAIN rates THEN rates["A"] ELSE 0)
    + (IF "B" \in DOMAIN rates THEN rates["B"] ELSE 0)

\* a * b of two numbers either of which may be NaN
Times(a, b) == IF isNaN(a) \/ isNaN(b) THEN NaN ELSE a * b

\* C25: revenue = cost x students, instructorExpense = (sum of the hourly
\* rates) x totalHours and profit = revenue - instructorExpense -
\* materialsCost; cost 100, students 10, rates {A: 20, B: 10}, 5 hours and
\* materials 50 give 1000, 150 and 800 (expense and profit in sixtieths).
C25_MoneyVirtuals ==
  req.op = "virtuals" =>
    /\ res.data.revenue = ReadCourse.cost * ReadCourse.students
    /\ res.data.instructorExpense
         = Times(RateSum(ReadCourse.instructorRates), res.data.totalHours)
    /\ res.data.profit = 60 * res.data.revenue - res.data.instructorExpense
                           - 60 * ReadCourse.materialsCost
    /\ (/\ ReadCourse.cost = 100 /\ ReadCourse.students = 10
        /\ ReadCourse.instructorRates = [k \in {"A", "B"} |-> IF k = "A" THEN 20 ELSE 10]
        /\ ReadCourse.courseDatesTimes = FiveHours /\ ReadCourse.materialsCost = 50)
       => /\ res.data.revenue = 1000
          /\ res.data.instructorExpense = 60 * 150
          /\ res.data.profit = 60 * 800

(***************************************************************************)
(* Billing: subscriptions, checkout and the payment processor's webhook    *)
(***************************************************************************)
PLANS  == {"free", "pro", "business"}
CYCLES == {"monthly", "annual"}

\* the enum of Subscription.status
SubscriptionStatuses ==
  {"active", "trialing", "past_due", "canceled", "incomplete", "incomplete_expired"}

SubIds      == {"s1", "s2", "s3"}
CustomerIds == {"cus1", "cus2"}

\* Subscription.findOne({owner: userId}): the ids of the matching documents
SubscriptionsOf(userId) ==
  {s \in DOMAIN subscriptions : subscriptions[s].owner = userId}

\* Subscription.findOne({stripeCustomerId: customerId})
SubscriptionsOfCustomer(customerId) ==
  {s \in DOMAIN subscriptions : subscriptions[s].stripeCustomerId = customerId}

\* the document Subscription.create({owner, planId: 'free', status: 'active'})
\* stores, with the schema defaults
DefaultSubscription(userId) ==
  [owner |-> userId, planId |-> "free", cycle |-> "monthly", status |-> "active",
   stripeCustomerId |-> NoId, stripeSubscriptionId |-> NoId, stripePriceId |-> NoId,
   currentPeriodStart |-> NaN, currentPeriodEnd |-> NaN]

\* the unique index on Subscription.owner
SubscriptionIndexOk(all) ==
  \A s, t \in DOMAIN all : s # t => all[s].owner # all[t].owner

\* validation of a Subscription on save(): the three enums
SubscriptionValid(doc) ==
  /\ doc.planId \in PLANS
  /\ doc.cycle \in CYCLES
  /\ doc.status \in SubscriptionStatuses

\* requireValidPlanCycle: TRUE when it does not throw
requireValidPlanCycle(planId, cycle) ==
  planId \in PLANS /\ (planId # "free" => cycle \in CYCLES)

\* String(req.body.x || dflt)
OrDefault(body, f, dflt) == IF Has(body, f) /\ body[f] # "" THEN body[f] ELSE dflt

\* the time of the request, and monthsFromNow(n), counted in months
Now == 0
monthsFromNow(n) == Now + n

\* priceIdFor: the deployment has a price for every paid plan and cycle
priceIdFor(planId, cycle) ==
  IF planId = "pro" THEN (IF cycle = "monthly" THEN "price_pm" ELSE "price_pa")
  ELSE IF cycle = "monthly" THEN "price_bm" ELSE "price_ba"

\* the subscription id a create uses
NewSubId == CHOOSE s \in SubIds \ DOMAIN subscriptions : TRUE

\* GET /billing/status, run to completion
GetStatus(tok) ==
  LET user == verifyToken(tok) IN
  /\ SubIds \ DOMAIN subscriptions # {}
  /\ IF SubscriptionsOf(user._id) # {}
     THEN /\ UNCHANGED subscriptions
          /\ Respond("status", user, NoId, NoId, NoBody, 200, SubscriptionsOf(user._id))
     ELSE /\ subscriptions' = (NewSubId :> DefaultSubscription(user._id)) @@ subscriptions
          /\ Respond("status", user, NoId, NoId, NoBody, 200, {NewSubId})
  /\ UNCHANGED <<users, instructors, courses, invites, stripe, inflight, tz>>

\* what checkout stores in the caller's subscription sub (free plan, paid
\* plan without the payment client, paid plan with it)
CheckoutUpdate(sub, planId, cycle, customer) ==
  IF planId = "free"
  THEN [sub EXCEPT !.planId = "free", !.cycle = "monthly", !.status = "active",
                   !.stripeSubscriptionId = NoId, !.stripePriceId = NoId,
                   !.currentPeriodStart = Now, !.currentPeriodEnd = NaN]
  ELSE IF ~stripe
  THEN [sub EXCEPT !.planId = planId, !.cycle = cycle, !.status = "active",
                   !.stripeSubscriptionId = NoId, !.stripePriceId = NoId,
                   !.currentPeriodStart = Now,
                   !.currentPeriodEnd = IF cycle = "annual" THEN monthsFromNow(12)
                                        ELSE monthsFromNow(1)]
  ELSE IF sub.stripeCustomerId = NoId
  THEN [sub EXCEPT !.stripeCustomerId = customer]
  ELSE sub

\* POST /billing/checkout, run to completion
Checkout(tok, body) ==
  LET user   == verifyToken(tok)
      planId == OrDefault(body, "planId", "free")
      cycle  == OrDefault(body, "cycle", "monthly")
  IN  /\ SubIds \ DOMAIN subscriptions # {}
      /\ IF ~requireValidPlanCycle(planId, cycle)
         THEN /\ UNCHANGED subscriptions
              /\ Respond("checkout", user, NoId, NoId, body, 400, {})
         ELSE \E customer \in CustomerIds :
                LET found == SubscriptionsOf(user._id)
                    all   == IF found # {} THEN subscriptions
                             ELSE (NewSubId :> DefaultSubscription(user._id))
                                    @@ subscriptions
                    id    == IF found # {} THEN CHOOSE s \in found : TRUE ELSE NewSubId
                IN  /\ SubscriptionsOfCustomer(customer) = {}
                    /\ subscriptions' =
                         [all EXCEPT ![id] = CheckoutUpdate(@, planId, cycle, customer)]
                    /\ Respond("checkout", user, NoId, NoId, body, 200, {id})
      /\ UNCHANGED <<users, instructors, courses, invites, stripe, inflight, tz>>

\* the event types the webhook mirrors
SubscriptionEvents ==
  {"customer.subscription.created", "customer.subscription.updated",
   "customer.subscription.deleted"}

MirroredEvents == {"checkout.session.completed"} \cup SubscriptionEvents

\* new Date(seconds * 1000)
DateOfSeconds(n) == n * 1000

\* what the webhook assigns to the local subscription before save().  For
\* checkout.session.completed the status, period and price are those of the
\* processor's subscription the session names, carried here by the event.
WebhookUpdate(sub, ev) ==
  IF ev.type = "checkout.session.completed"
  THEN [sub EXCEPT !.planId = IF ev.planId # NoId THEN ev.planId ELSE @,
                   !.cycle = IF ev.cycle # NoId THEN ev.cycle ELSE @,
                   !.status = IF ev.status # NoId THEN ev.status ELSE "active",
                   !.stripeSubscriptionId = ev.subscription,
                   !.stripePriceId = ev.priceId,
                   !.currentPeriodStart = DateOfSeconds(ev.periodStart),
                   !.currentPeriodEnd = DateOfSeconds(ev.periodEnd)]
  ELSE [sub EXCEPT !.status = ev.status,
                   !.stripeSubscriptionId = ev.subscription,
                   !.stripePriceId = ev.priceId,
                   !.currentPeriodStart = DateOfSeconds(ev.periodStart),
                   !.currentPeriodEnd = DateOfSeconds(ev.periodEnd)]

\* POST /billing/webhook: 400 when the signature does not verify (or no
\* payment client exists to verify it), 500 when save() refuses the document
Webhook(ev) ==
  /\ IF ~stripe \/ ~ev.signed
     THEN /\ UNCHANGED subscriptions
          /\ Respond("webhook", Anonymous, NoId, NoId, ev, 400, {})
     ELSE IF ev.type \notin MirroredEvents \/ SubscriptionsOfCustomer(ev.customer) = {}
     THEN /\ UNCHANGED subscriptions
          /\ Respond("webhook", Anonymous, NoId, NoId, ev, 200, {})
     ELSE \E s \in SubscriptionsOfCustomer(ev.customer) :
            LET doc == WebhookUpdate(subscriptions[s], ev) IN
            IF SubscriptionValid(doc)
            THEN /\ subscriptions' = [subscriptions EXCEPT ![s] = doc]
                 /\ Respond("webhook", Anonymous, NoId, NoId, ev, 200, {s})
            ELSE /\ UNCHANGED subscriptions
                 /\ Respond("webhook", Anonymous, NoId, NoId, ev, 500, {})
  /\ UNCHANGED <<users, instructors, courses, invites, stripe, inflight, tz>>

\* the statuses an event carries: the processor's, one of which (unpaid)
\* the local enum does not have
EventStatuses == {"past_due", "canceled", "unpaid"}

WebhookEvents ==
  [type : {"checkout.session.completed"}, customer : {"cus1", "cus9"},
   subscription : {"sub1"}, status : {"active", NoId}, periodStart : {1},
   periodEnd : {2}, priceId : {"price_pa"}, planId : {"pro"},
   cycle : {"annual", NoId}, signed : {TRUE}]
  \cup
  [type : SubscriptionEvents \cup {"invoice.paid"}, customer : {"cus1", "cus9"},
   subscription : {"sub1"}, status : EventStatuses, periodStart : {1},
   periodEnd : {3}, priceId : {"price_pa"}, planId : {NoId}, cycle : {NoId},
   signed : BOOLEAN]

CheckoutBodies ==
  {[planId |-> "pro", cycle |-> "monthly"], [planId |-> "business", cycle |-> "annual"],
   [cycle |-> "monthly"], [planId |-> "gold", cycle |-> "monthly"],
   [planId |-> "pro", cycle |-> "weekly"]}

\* the payment client and the webhook secret are configured
InitWebhook ==
  /\ users = Users0
  /\ instructors = EmptyStore
  /\ courses = EmptyStore
  /\ invites = EmptyStore
  /\ subscriptions = EmptyStore
  /\ stripe = TRUE
  /\ inflight = EmptyStore
  /\ tz = 0
  /\ InitRequest

NextWebhook ==
  \/ \E tok \in OwnerTokens : GetStatus(tok)
  \/ \E tok \in OwnerTokens, body \in CheckoutBodies : Checkout(tok, body)
  \/ \E ev \in WebhookEvents : Webhook(ev)

SpecWebhook == InitWebhook /\ [][NextWebhook]_vars

\* the last request is a webhook call whose event passed the signature check
EventProcessed(r) == r.op = "webhook" /\ r.body.signed

\* C26: each processed event of type checkout completed or subscription
\* created/updated/deleted sets the status and the current-period bounds of
\* the local Subscription of the event's customer to the event's values; the
\* subscription events leave its plan and cycle unchanged; an event of an
\* unknown customer or of another type changes no Subscription.
C26_WebhookMirrorsEvent ==
  [][ EventProcessed(req') =>
        LET ev == req'.body IN
        /\ \A s \in DOMAIN subscriptions :
             IF ev.type \in MirroredEvents /\ subscriptions[s].stripeCustomerId = ev.customer
             THEN /\ subscriptions'[s].status
                       = (IF ev.status # NoId THEN ev.status ELSE "active")
                  /\ subscriptions'[s].currentPeriodStart = DateOfSeconds(ev.periodStart)
                  /\ subscriptions'[s].currentPeriodEnd = DateOfSeconds(ev.periodEnd)
                  /\ ev.type \in SubscriptionEvents =>
                       /\ subscriptions'[s].planId = subscriptions[s].planId
                       /\ subscriptions'[s].cycle = subscriptions[s].cycle
             ELSE subscriptions'[s] = subscriptions[s]
        /\ DOMAIN subscriptions' = DOMAIN subscriptions ]_vars

(***************************************************************************)
(* Token payloads: the two historical shapes                               *)
(*                                                                         *)
(* A decoded token is the record of the fields its payload has; the old    *)
(* shape keeps them under the field payload.                               *)
(***************************************************************************)
\* a || b on strings, the missing and the empty value being falsy
Or(a, b) == IF a # NoId THEN a ELSE b

\* obj.f, NoId when obj has no such field
Field(obj, f) == IF Has(obj, f) THEN obj[f] ELSE NoId

\* verifyToken reading the root of the token only
verifyTokenDecoded_flatOnly(decoded) ==
  [_id |-> Or(Field(decoded, "_id"), Or(Field(decoded, "uid"), Field(decoded, "sub"))),
   username |-> Or(Field(decoded, "username"), Field(decoded, "email")),
   roles |-> IF Has(decoded, "roles")
             THEN {toLowerCase(r) : r \in decoded.roles} ELSE {}]

\* verifyToken, lines 17-29: the identity it puts in req.user (an empty _id
\* is answered 401)
verifyTokenDecoded(decoded) ==
  LET src == IF Has(decoded, "payload") THEN decoded.payload ELSE decoded IN
  [_id |-> Or(Field(src, "_id"), Or(Field(src, "uid"), Field(src, "sub"))),
   username |-> Or(Field(src, "username"), Field(src, "email")),
   roles |-> IF Has(src, "roles") THEN {toLowerCase(r) : r \in src.roles} ELSE {}]

\* extractUser(decoded) of requireAuth: root fields first, sub before uid
\* before _id; an array, also an empty one, is truthy
extractUserDecoded(decoded) ==
  LET root   == decoded
      nested == IF Has(decoded, "payload") THEN decoded.payload ELSE EmptyMap
  IN  [id |-> Or(Field(root, "sub"), Or(Field(root, "uid"), Or(Field(root, "_id"),
                Or(Field(nested, "_id"), Or(Field(nested, "uid"), Field(nested, "sub")))))),
       roles |-> IF Has(root, "roles") THEN root.roles
                 ELSE IF Has(nested, "roles") THEN nested.roles ELSE {},
       username |-> Or(Field(root, "username"), Field(nested, "username"))]

\* the records with the field f, one per value, and the record without it
Opt(f, values) == {EmptyMap} \cup {[k \in {f} |-> v] : v \in values}

TokenUserIds == {"u1", "u2"}

\* flat payloads: any of _id, uid, sub; username or email; roles
FlatPayloads ==
  {a @@ b @@ c @@ d @@ e @@ f :
     a \in Opt("_id", TokenUserIds), b \in Opt("uid", TokenUserIds),
     c \in Opt("sub", TokenUserIds), d \in Opt("username", {"M3"}),
     e \in Opt("email", {"m3"}), f \in Opt("roles", {{}, {"Admin"}})}

\* what the old shape keeps under payload
InnerPayloads ==
  {a @@ b @@ d @@ f :
     a \in Opt("_id", TokenUserIds), b \in Opt("uid", {"u1"}),
     d \in Opt("username", {"M3"}), f \in Opt("roles", {{}, {"Admin"}})}

\* nested payloads, a few of them with an identity at the root as well
NestedPayloads ==
  {[payload |-> p] @@ c : p \in InnerPayloads, c \in Opt("sub", {"u2"})}

DecodedTokens == FlatPayloads \cup NestedPayloads

\* a verified token arrives
InitTokens ==
  /\ users = Users0
  /\ instructors = EmptyStore
  /\ courses = EmptyStore
  /\ invites = EmptyStore
  /\ NoBilling
  /\ tz = 0
  /\ \E t \in DecodedTokens :
       req = [op |-> "token", user |-> NoUser, id |-> NoId, inst |-> NoId, body |-> t]
  /\ res = [status |-> 0, data |-> NoUser]

\* verifyToken on the decoded token: req.user and next(), or 401
VerifyDecoded ==
  LET u == verifyTokenDecoded(req.body) IN
  /\ req.op = "token"
  /\ IF u._id = NoId
     THEN /\ req' = [req EXCEPT !.op = "verifyToken"]
          /\ res' = [status |-> 401, data |-> NoUser]
     ELSE /\ req' = [req EXCEPT !.op = "verifyToken",
                                !.user = [_id |-> u._id, roles |-> u.roles]]
          /\ res' = [status |-> 200, data |-> u]
  /\ UNCHANGED <<users, instructors, courses, invites, subscriptions, stripe, inflight, tz>>

\* requireAuth on the decoded token: req.auth and next(), or 401
RequireDecoded ==
  LET u == extractUserDecoded(req.body) IN
  /\ req.op = "token"
  /\ IF u.id = NoId
     THEN /\ req' = [req EXCEPT !.op = "requireAuth"]
          /\ res' = [status |-> 401, data |-> NoUser]
     ELSE /\ req' = [req EXCEPT !.op = "requireAuth",
                                !.user = [_id |-> u.id, roles |-> u.roles]]
          /\ res' = [status |-> 200,
                     data |-> [_id |-> u.id, username |-> u.username, roles |-> u.roles]]
  /\ UNCHANGED <<users, instructors, courses, invites, subscriptions, stripe, inflight, tz>>

NextTokens == VerifyDecoded \/ RequireDecoded

SpecTokens == InitTokens /\ [][NextTokens]_vars

\* the part of a token that carries the identity when the token has one of
\* the two historical shapes: everything under payload, or everything at
\* the root
Historical(t) == ~Has(t, "payload") \/ DOMAIN t = {"payload"}

Carrier(t) == IF Has(t, "payload") THEN t.payload ELSE t

\* the user ids a token names
NamedIds(t) == {Carrier(t)[f] : f \in DOMAIN Carrier(t) \cap {"_id", "uid", "sub"}}

\* the canonical identity of a historical token that names one user
Canonical(t) ==
  [_id |-> CHOOSE i \in NamedIds(t) : TRUE,
   username |-> IF Has(Carrier(t), "username") THEN Carrier(t).username
                ELSE Field(Carrier(t), "email"),
   roles |-> IF Has(Carrier(t), "roles")
             THEN {toLowerCase(r) : r \in Carrier(t).roles} ELSE {}]

Procs == {"p1", "p2"}

\* the request of process p is recorded, replaced or completed
Put(p, rec) ==
  inflight' = [q \in DOMAIN inflight \cup {p} |-> IF q = p THEN rec ELSE inflight[q]]

Idle(p) == p \notin DOMAIN inflight

At(p, op, pc) == p \in DOMAIN inflight /\ inflight[p].op = op /\ inflight[p].pc = pc

Done(p, op) == At(p, op, "done")

(***************************************************************************)
(* PUT /courses/:id/attendance, step by step                               *)
(***************************************************************************)
\* Course.findById: the handler keeps the document it read
AttendanceLoad(p, tok, id, body) ==
  LET user == verifyToken(tok)
      r0   == [op |-> "putAttendance", user |-> user, id |-> id, body |-> body,
               my |-> NoId, status |-> 0]
  IN  /\ Idle(p)
      /\ IF id \notin DOMAIN courses
         THEN /\ Put(p, Spread(r0, [pc |-> "done", status |-> 404, course |-> EmptyMap]))
              /\ Respond("putAttendance", user, id, NoId, body, 404, {})
         ELSE /\ Put(p, Spread(r0, [pc |-> "loaded", course |-> courses[id]]))
              /\ UNCHANGED <<req, res>>
      /\ UNCHANGED <<users, instructors, courses, invites, subscriptions, stripe, tz>>

\* course.save() of the document read earlier, with the attendance path
\* modified: the whole mapping is written; the document must still exist
\* and be valid
SaveAttendance(p, r, my, map) ==
  LET doc == [r.course EXCEPT !.attendance = map] IN
  IF r.id \in DOMAIN courses /\ DocumentValid(doc)
  THEN /\ courses' = [courses EXCEPT ![r.id].attendance = map]
       /\ Put(p, [r EXCEPT !.pc = "done", !.my = my, !.status = 200])
       /\ Respond("putAttendance", r.user, r.id, my, r.body, 200, {r.id})
  ELSE /\ UNCHANGED courses
       /\ Put(p, [r EXCEPT !.pc = "done", !.my = my, !.status = 500])
       /\ Respond("putAttendance", r.user, r.id, my, r.body, 500, {})

\* the owner's branch saves at once; any other caller is resolved to an
\* instructor first
AttendanceResolve(p) ==
  /\ At(p, "putAttendance", "loaded")
  /\ LET r       == inflight[p]
         allowed == AllowedKeys(r.course)
     IN  IF isOwner(r.course.owner, r.user._id)
         THEN SaveAttendance(p, r, NoId, OwnerAttendance(r.body, allowed))
         ELSE \E my \in resolveInstructorIdForUser(r.user._id) :
                IF ~courseIncludesInstructor(r.course, my)
                THEN /\ Put(p, [r EXCEPT !.pc = "done", !.my = my, !.status = 403])
                     /\ Respond("putAttendance", r.user, r.id, my, r.body, 403, {})
                     /\ UNCHANGED courses
                ELSE /\ Put(p, [r EXCEPT !.pc = "resolved", !.my = my])
                     /\ UNCHANGED <<courses, req, res>>
  /\ UNCHANGED <<users, instructors, invites, subscriptions, stripe, tz>>

\* the instructor's branch: the caller's entry is set in the mapping read
\* earlier, and the document is saved
AttendanceSave(p) ==
  /\ At(p, "putAttendance", "resolved")
  /\ LET r == inflight[p] IN
     SaveAttendance(p, r, r.my,
                    InstructorAttendance(r.course.attendance, r.my,
                                         MyList(r.body, r.my, AllowedKeys(r.course))))
  /\ UNCHANGED <<users, instructors, invites, subscriptions, stripe, tz>>

RaceCreateBody ==
  [start_date |-> 0, end_date |-> 1, daysOfWeek |-> {0, 1}, instructors |-> {"i1", "i2"}]

RaceAttendanceBodies ==
  {[kind |-> "array", list |-> l] : l \in ListsUpTo(1)}
    \cup {[kind |-> "object", map |-> [i \in {"i1", "i2"} |-> <<idxKey(0)>>]]}

InitAttendanceRace ==
  /\ users = Users0
  /\ instructors = InstructorsOfOneTenant
  /\ courses = EmptyStore
  /\ invites = EmptyStore
  /\ NoBilling
  /\ tz = 0
  /\ InitRequest

NextAttendanceRace ==
  \/ CreateCourse(OwnerToken, "c1", RaceCreateBody)
  \/ \E p \in Procs, tok \in PlainTokens, body \in RaceAttendanceBodies :
       AttendanceLoad(p, tok, "c1", body)
  \/ \E p \in Procs : AttendanceResolve(p)
  \/ \E p \in Procs : AttendanceSave(p)

SpecAttendanceRace == InitAttendanceRace /\ [][NextAttendanceRace]_vars

\* both requests are attendance PUTs on one course by two different
\* assigned instructors, and both have completed successfully
BothInstructorsDone ==
  /\ \A p \in Procs : Done(p, "putAttendance") /\ inflight[p].status = 200
  /\ inflight["p1"].id = inflight["p2"].id
  /\ inflight["p1"].my # NoId /\ inflight["p2"].my # NoId
  /\ inflight["p1"].my # inflight["p2"].my

\* C28: under any interleaving of two attendance PUT requests on one course
\* by two different assigned instructors both updates take effect: after
\* both complete, each instructor's entry is the filtered list that
\* instructor submitted.
C28_NoLostAttendanceUpdate ==
  BothInstructorsDone =>
    \A p \in Procs :
      LET r == inflight[p] IN
      /\ r.my \in DOMAIN courses[r.id].attendance
      /\ courses[r.id].attendance[r.my]
           = MyList(r.body, r.my, AllowedKeys(courses[r.id]))

(***************************************************************************)
(* POST /auth/accept-invite, step by step                                  *)
(***************************************************************************)
\* the body is checked and findTokenDoc reads the invite, which the
\* handler keeps: usedAt and expiresAt are tested on this copy
AcceptCheck(p, rawToken, password) ==
  LET body == [token |-> rawToken, password |-> password]
      st   == IF rawToken = 0 \/ password = "" THEN 400
              ELSE IF PasswordLength(password) < 8 THEN 400
              ELSE inviteCheck(rawToken)
      r0   == [op |-> "accept", user |-> Anonymous, id |-> NoId, body |-> body,
               tdoc |-> EmptyMap, status |-> 0]
      miss == rawToken # 0 /\ password # "" /\ PasswordLength(password) >= 8
              /\ findTokenDoc(rawToken) # {}
              /\ LET t == invites[CHOOSE t \in findTokenDoc(rawToken) : TRUE]
                 IN  ~t.usedAt /\ ~t.expired
  IN  /\ Idle(p)
      /\ IF miss
         THEN \* not used, not expired: User.findById is awaited next
              /\ Put(p, Spread(r0, [pc |-> "checked",
                                    id |-> CHOOSE t \in findTokenDoc(rawToken) : TRUE,
                                    tdoc |-> invites[CHOOSE t \in findTokenDoc(rawToken) : TRUE]]))
              /\ UNCHANGED <<req, res>>
         ELSE /\ Put(p, Spread(r0, [pc |-> "done", status |-> st]))
              /\ Respond("accept", Anonymous, NoId, NoId, body, st, {})
      /\ UNCHANGED <<users, instructors, courses, invites, subscriptions, stripe, tz>>

\* User.findById(tdoc.user), the password hash, user.save()
AcceptSaveUser(p) ==
  /\ At(p, "accept", "checked")
  /\ LET r == inflight[p] IN
     IF r.tdoc.user \notin DOMAIN users
     THEN /\ Put(p, [r EXCEPT !.pc = "done", !.status = 404])
          /\ Respond("accept", Anonymous, NoId, NoId, r.body, 404, {})
          /\ UNCHANGED users
     ELSE /\ users' = [users EXCEPT ![r.tdoc.user] =
                         [@ EXCEPT !.hashedPassword = bcrypt(r.body.password),
                                   !.status = "active",
                                   !.roles = @ \cup {"instructor"},
                                   !.lastLoginAt = TRUE]]
          /\ Put(p, [r EXCEPT !.pc = "saved"])
          /\ UNCHANGED <<req, res>>
  /\ UNCHANGED <<instructors, courses, invites, subscriptions, stripe, tz>>

\* InviteToken.updateOne({_id}, {$set: {usedAt}}), deleteMany of the
\* siblings, and the login token in the response
AcceptMarkUsed(p) ==
  /\ At(p, "accept", "saved")
  /\ LET r == inflight[p] IN
     /\ invites' = purgeSiblings([invites EXCEPT ![r.id].usedAt = TRUE], r.id)
     /\ Put(p, [r EXCEPT !.pc = "done", !.status = 200])
     /\ Respond("accept", Anonymous, NoId, r.tdoc.instructor, r.body, 200, {r.tdoc.user})
  /\ UNCHANGED <<users, instructors, courses, subscriptions, stripe, tz>>

InitAcceptRace ==
  /\ users = InviteUsers0
  /\ instructors = InviteInstructors0
  /\ courses = EmptyStore
  /\ invites = EmptyStore
  /\ NoBilling
  /\ tz = 0
  /\ InitRequest

NextAcceptRace ==
  \/ \E id \in InstIds : InviteInstructor(OwnerToken, id)
  \/ \E p \in Procs, t \in 0..MaxTokens, pw \in {"short", "password1", "password2"} :
       AcceptCheck(p, t, pw)
  \/ \E p \in Procs : AcceptSaveUser(p)
  \/ \E p \in Procs : AcceptMarkUsed(p)
  \/ \E t \in TokenIds : ExpireToken(t)

SpecAcceptRace == InitAcceptRace /\ [][NextAcceptRace]_vars

\* the request of p carried raw token t and was answered with a login token
Accepted(p, t) ==
  Done(p, "accept") /\ inflight[p].status = 200 /\ inflight[p].body.token = t

\* C29: under any interleaving of concurrent accept-invite requests with the
\* same valid token at most one sets the password and receives a login
\* token: the test of usedAt and the marking as used are not both passed by
\* two requests.
C29_AcceptOnceUnderRace ==
  \A t \in TokenIds : ~(Accepted("p1", t) /\ Accepted("p2", t))

(***************************************************************************)
(* GET /billing/status and POST /billing/checkout, step by step            *)
(***************************************************************************)
\* Subscription.findOne({owner}) of getOrCreateUserSubscription: the handler
\* keeps the document it read, or goes on to Subscription.create
FindSubscription(p, r0) ==
  LET found == SubscriptionsOf(r0.user._id) IN
  IF found # {}
  THEN Put(p, Spread(r0, [pc |-> "found", id |-> CHOOSE s \in found : TRUE,
                          sub |-> subscriptions[CHOOSE s \in found : TRUE]]))
  ELSE Put(p, Spread(r0, [pc |-> "creating"]))

\* GET /billing/status: verifyToken and the findOne
StatusFind(p, tok) ==
  LET user == verifyToken(tok)
      r0   == [op |-> "status", user |-> user, id |-> NoId, body |-> NoBody,
               sub |-> EmptyMap, status |-> 0]
      found == SubscriptionsOf(user._id)
  IN  /\ Idle(p)
      /\ IF found # {}
         THEN /\ Put(p, Spread(r0, [pc |-> "done", status |-> 200,
                                    id |-> CHOOSE s \in found : TRUE]))
              /\ Respond("status", user, NoId, NoId, NoBody, 200, found)
         ELSE /\ FindSubscription(p, r0)
              /\ UNCHANGED <<req, res>>
      /\ UNCHANGED <<users, instructors, courses, invites, subscriptions, stripe, tz>>

\* Subscription.create of GET /billing/status: the unique index on owner
\* rejects a second document of the owner and the catch answers 500
StatusCreate(p) ==
  /\ At(p, "status", "creating")
  /\ SubIds \ DOMAIN subscriptions # {}
  /\ LET r == inflight[p] IN
     IF SubscriptionsOf(r.user._id) # {}
     THEN /\ UNCHANGED subscriptions
          /\ Put(p, [r EXCEPT !.pc = "done", !.status = 500])
          /\ Respond("status", r.user, NoId, NoId, NoBody, 500, {})
     ELSE /\ subscriptions' = (NewSubId :> DefaultSubscription(r.user._id)) @@ subscriptions
          /\ Put(p, [r EXCEPT !.pc = "done", !.status = 200, !.id = NewSubId])
          /\ Respond("status", r.user, NoId, NoId, NoBody, 200, {NewSubId})
  /\ UNCHANGED <<users, instructors, courses, invites, stripe, tz>>

\* POST /billing/checkout: verifyToken, requireValidPlanCycle and the findOne
CheckoutFind(p, tok, body) ==
  LET user   == verifyToken(tok)
      planId == OrDefault(body, "planId", "free")
      cycle  == OrDefault(body, "cycle", "monthly")
      r0     == [op |-> "checkout", user |-> user, id |-> NoId, body |-> body,
                 sub |-> EmptyMap, status |-> 0]
  IN  /\ Idle(p)
      /\ IF ~requireValidPlanCycle(planId, cycle)
         THEN /\ Put(p, Spread(r0, [pc |-> "done", status |-> 400]))
              /\ Respond("checkout", user, NoId, NoId, body, 400, {})
         ELSE /\ FindSubscription(p, r0)
              /\ UNCHANGED <<req, res>>
      /\ UNCHANGED <<users, instructors, courses, invites, subscriptions, stripe, tz>>

\* Subscription.create of POST /billing/checkout: the catch answers 400
CheckoutCreate(p) ==
  /\ At(p, "checkout", "creating")
  /\ SubIds \ DOMAIN subscriptions # {}
  /\ LET r == inflight[p] IN
     IF SubscriptionsOf(r.user._id) # {}
     THEN /\ UNCHANGED subscriptions
          /\ Put(p, [r EXCEPT !.pc = "done", !.status = 400])
          /\ Respond("checkout", r.user, NoId, NoId, r.body, 400, {})
     ELSE /\ subscriptions' = (NewSubId :> DefaultSubscription(r.user._id)) @@ subscriptions
          /\ Put(p, [r EXCEPT !.pc = "found", !.id = NewSubId,
                              !.sub = DefaultSubscription(r.user._id)])
          /\ UNCHANGED <<req, res>>
  /\ UNCHANGED <<users, instructors, courses, invites, stripe, tz>>

\* sub.save() of POST /billing/checkout: the paths the handler assigned are
\* written to the stored document.  With the payment client a customer is
\* created only when the document the handler read has none.
CheckoutSave(p) ==
  /\ At(p, "checkout", "found")
  /\ LET r      == inflight[p]
         planId == OrDefault(r.body, "planId", "free")
         cycle  == OrDefault(r.body, "cycle", "monthly")
     IN  \E customer \in CustomerIds :
           /\ SubscriptionsOfCustomer(customer) = {}
           /\ subscriptions' =
                [subscriptions EXCEPT ![r.id] =
                   IF planId = "free" \/ ~stripe
                   THEN CheckoutUpdate(@, planId, cycle, customer)
                   ELSE IF r.sub.stripeCustomerId = NoId
                   THEN [@ EXCEPT !.stripeCustomerId = customer]
                   ELSE @]
           /\ Put(p, [r EXCEPT !.pc = "done", !.status = 200])
           /\ Respond("checkout", r.user, NoId, NoId, r.body, 200, {r.id})
  /\ UNCHANGED <<users, instructors, courses, invites, stripe, tz>>

\* the response is out and the connection is closed
Close(p) ==
  /\ p \in DOMAIN inflight /\ inflight[p].pc = "done"
  /\ inflight' = Without(inflight, p)
  /\ Event("close")
  /\ UNCHANGED <<users, instructors, courses, invites, subscriptions, stripe, tz>>

RaceCheckoutBodies ==
  {[planId |-> "pro", cycle |-> "annual"], [cycle |-> "monthly"],
   [planId |-> "gold", cycle |-> "monthly"], [planId |-> "pro", cycle |-> "weekly"]}

InitBillingRace ==
  /\ users = Users0
  /\ instructors = EmptyStore
  /\ courses = EmptyStore
  /\ invites = EmptyStore
  /\ subscriptions = EmptyStore
  /\ stripe \in BOOLEAN
  /\ inflight = EmptyStore
  /\ tz = 0
  /\ InitRequest

NextBillingRace ==
  \/ \E p \in Procs, tok \in OwnerTokens : StatusFind(p, tok)
  \/ \E p \in Procs : StatusCreate(p)
  \/ \E p \in Procs, tok \in OwnerTokens, body \in RaceCheckoutBodies :
       CheckoutFind(p, tok, body)
  \/ \E p \in Procs : CheckoutCreate(p)
  \/ \E p \in Procs : CheckoutSave(p)
  \/ \E p \in Procs : Close(p)

SpecBillingRace == InitBillingRace /\ [][NextBillingRace]_vars

\* the step answers the request of p
Answers(p) ==
  /\ p \in DOMAIN inflight' /\ inflight'[p].pc = "done"
  /\ ~(p \in DOMAIN inflight /\ inflight[p].pc = "done")

ValidCheckout(r) ==
  requireValidPlanCycle(OrDefault(r.body, "planId", "free"),
                        OrDefault(r.body, "cycle", "monthly"))

\* at most one Subscription per owner
OneSubscriptionPerOwner == SubscriptionIndexOk(subscriptions)

\* a status request, and a checkout with a valid plan and cycle, is answered
\* 200 with the caller's one subscription
ServedFromOwnSubscription ==
  \A p \in Procs :
    Answers(p) /\ (inflight'[p].op = "status" \/ ValidCheckout(inflight'[p])) =>
      /\ res'.status = 200
      /\ res'.data = {s \in DOMAIN subscriptions' :
                        subscriptions'[s].owner = inflight'[p].user._id}
      /\ \A s \in DOMAIN subscriptions :
           s \in DOMAIN subscriptions' /\ subscriptions'[s].owner = subscriptions[s].owner

\* a checkout with an invalid plan or cycle is answered with an error and
\* the subscriptions stay as they are
InvalidCheckoutRejected ==
  \A p \in Procs :
    Answers(p) /\ inflight'[p].op = "checkout" /\ ~ValidCheckout(inflight'[p]) =>
      res'.status >= 400 /\ subscriptions' = subscriptions

\* C30: in every reachable state there is at most one Subscription per
\* user; status and checkout requests return or update the caller's
\* existing Subscription, creating the default one only when none exists,
\* also when two requests of one user interleave; a checkout with an
\* invalid planId or cycle is answered with an error and creates or changes
\* no Subscription.
C30_OneSubscriptionPerUser ==
  /\ []OneSubscriptionPerOwner
  /\ [][ServedFromOwnSubscription /\ InvalidCheckoutRejected]_vars

====
